---- MODULE Spec2Model ----
(***************************************************************************)
(* A model of the auto-improvement learning loop: the Analyzed-Set ledger  *)
(* (core.py), the Repository Snapshot Manager (git_manager.py), the Cycle  *)
(* Orchestrator (core.py), the PR Catalog (github_client.py), the Solution *)
(* comparison and the attempt extraction (agent_clients/), and the         *)
(* issue-tracker clients (issues_tracker_clients/).                        *)
(***************************************************************************)
EXTENDS Integers, Sequences, FiniteSets, TLC

VARIABLES
    ledgerFile,     \* content of <learning_dir>/.analyzed_prs.json
    now,            \* the wall clock read by datetime.now(UTC)
    call,           \* the last ledger call and its outcome
    marked,         \* history: ids for which _save_analyzed_pr returned
    localCopy,      \* whether <local_path>/.git exists
    repo,           \* GitManager.repo: "none" (Uninitialized) or "ready"
    head,           \* the commit checked out in the working copy
    index,          \* the paths git tracks in the working copy
    wc,             \* the working copy: path -> content or Absent
    gitCall,        \* the last GitManager call and its outcome
    solution,       \* the Solution.files returned by the last get_pr_solution
    max_attempts_per_pr, \* config.learning.max_attempts_per_pr
    agentMd,        \* whether the learning directory holds the agent context file
    pc,             \* the statement run_improvement_cycle is at
    raised,         \* an exception left run_improvement_cycle at pc
    runNo,          \* history: how many runs were started
    specific_pr,    \* the argument specific_pr, 0 for None
    max_iterations, \* the argument max_iterations (the limit of _select_prs)
    analyzed_prs,   \* the set _select_prs loaded from the ledger
    skipped,        \* history: the PR numbers search_prs skipped as analyzed
    prs,            \* the PRs selected for this run
    idx,            \* the position in prs of the PR being processed
    session,        \* the ImprovementSession of the PR being processed
    claude_solution, \* the Solution.files of the agent's attempt
    current_run,    \* the ImprovementRun
    steps,          \* history: the steps of this PR's attempt that completed
    savedThisRun,   \* history: the PR numbers _save_analyzed_pr recorded in this run
    savedPrevRun,   \* history: the same for the run before
    repeated,       \* history: a PR number completed a second learning cycle
    scan,           \* a call of get_merged_prs: its arguments, locals and outcome
    matchCall,      \* a call of _matches_criteria: its arguments and result
    selCall,        \* a call of _select_prs: its inputs and result
    diffCall,       \* a call of _create_solution_diff: its arguments and result
    trackerCall,    \* a call of an issue-tracker client: its arguments and outcome
    prompt,         \* the prompt analyze_and_learn built for the PR being processed
    genCall         \* a call of ClaudeClient.generate_solution: its workspace and outcome

ledgerVars == <<ledgerFile, now, call, marked>>
gitVars == <<localCopy, repo, head, index, wc, gitCall, solution>>
runVars == <<max_attempts_per_pr, agentMd, pc, raised, runNo, specific_pr,
             max_iterations, analyzed_prs, skipped, prs, idx, session,
             claude_solution, current_run, steps, savedThisRun, savedPrevRun,
             repeated>>
fnVars == <<diffCall, trackerCall, prompt, genCall>>
catVars == <<scan, matchCall, selCall, fnVars>>
vars == <<ledgerFile, now, call, marked, localCopy, repo, head, index, wc,
          gitCall, solution, max_attempts_per_pr, agentMd, pc, raised, runNo,
          specific_pr, max_iterations, analyzed_prs, skipped, prs, idx, session,
          claude_solution, current_run, steps, savedThisRun, savedPrevRun,
          repeated, scan, matchCall, selCall, fnVars>>

----------------------------------------------------------------------------
(* Bounds and data *)

\* PR numbers known to the version-control host
PRIds == {1, 2, 3, 4}

\* the clock saturates at this value
MaxClock == 3

Max(S) == CHOOSE m \in S : \A y \in S : y <= m
Min(S) == CHOOSE m \in S : \A y \in S : m <= y

Range(s) == {s[i] : i \in 1..Len(s)}

----------------------------------------------------------------------------
(* The repository and the pull requests the host reports *)

Absent == "<absent>"
Paths == {"a.py", "b.py", "build.log"}
\* paths matched by the repository's .gitignore
IgnoredPaths == {"build.log"}
Contents == {"", "x=1\n", "x=2\n"}

NoFiles == [p \in Paths |-> Absent]

\* the commits of the repository and the tree of each
Commits == {"b1", "m1", "m2", "m3"}
Tree(c) ==
    CASE c = "b1" -> [NoFiles EXCEPT !["a.py"] = "x=1\n"]
      [] c = "m1" -> [NoFiles EXCEPT !["a.py"] = "x=2\n"]
      [] c = "m2" -> [NoFiles EXCEPT !["b.py"] = "x=1\n"]
      [] c = "m3" -> [NoFiles EXCEPT !["b.py"] = ""]
      [] OTHER -> NoFiles
\* the default branch's tip, checked out by a clone
DefaultHead == "m3"

\* PRInfo as the host reports it: PR 3 lists a.py, which its merge commit
\* does not hold; PR 4 names a base commit the repository cannot resolve and
\* has no issue reference the host's parse found
PRInfo(n) ==
    CASE n = 1 -> [number |-> 1, base_commit_sha |-> "b1", merge_commit_sha |-> "m1",
                   files_changed |-> <<[filename |-> "a.py", status |-> "modified"]>>,
                   labels |-> {"bug"},
                   linked_issue |-> TRUE]
      [] n = 2 -> [number |-> 2, base_commit_sha |-> "m1", merge_commit_sha |-> "m2",
                   files_changed |-> <<[filename |-> "b.py", status |-> "added"],
                                       [filename |-> "a.py", status |-> "removed"]>>,
                   labels |-> {},
                   linked_issue |-> TRUE]
      [] n = 3 -> [number |-> 3, base_commit_sha |-> "m2", merge_commit_sha |-> "m3",
                   files_changed |-> <<[filename |-> "b.py", status |-> "modified"],
                                       [filename |-> "a.py", status |-> "modified"]>>,
                   labels |-> {"wip"},
                   linked_issue |-> TRUE]
      [] OTHER -> [number |-> n, base_commit_sha |-> "zz", merge_commit_sha |-> "m3",
                   files_changed |-> <<[filename |-> "b.py", status |-> "modified"]>>,
                   labels |-> {},
                   linked_issue |-> FALSE]

----------------------------------------------------------------------------
(* The Repository Snapshot Manager: git_manager.py *)

TreePaths(c) == {p \in Paths : Tree(c)[p] # Absent}

\* a checkout that writes only the paths the working copy does not hold
CheckoutKeepsLocal(w, tracked, commit) ==
    [p \in Paths |-> IF w[p] # Absent THEN w[p] ELSE Tree(commit)[p]]

\* git checkout --force <commit> on a commit that resolves: every path of the
\* commit gets its committed content, a tracked path the commit lacks is
\* deleted, an untracked path the commit lacks is left alone
checkout_force(w, tracked, commit) ==
    [p \in Paths |-> IF Tree(commit)[p] # Absent THEN Tree(commit)[p]
                     ELSE IF p \in tracked THEN Absent
                     ELSE w[p]]

\* a clean that removes nothing
CleanKeepsAll(w, tracked, exclude_patterns) == w

\* a clean that removes one untracked path per call
CleanOnePath(w, tracked, exclude_patterns) ==
    LET U == {p \in Paths \ tracked : w[p] # Absent /\ p \notin exclude_patterns}
    IN  IF U = {} THEN w
        ELSE [w EXCEPT ![CHOOSE p \in U : TRUE] = Absent]

\* git clean -fd [--exclude ...]: without -x, ignored paths are kept
clean(w, tracked, exclude_patterns) ==
    [p \in Paths |-> IF p \notin tracked /\ p \notin IgnoredPaths
                        /\ p \notin exclude_patterns
                     THEN Absent ELSE w[p]]

\* Git.execute of GitPython, strip_newline_in_stdout=True: the output of
\* repo.git.show loses one trailing newline
strip_newline_in_stdout(s) ==
    IF Len(s) > 0 /\ SubSeq(s, Len(s), Len(s)) = "\n"
    THEN SubSeq(s, 1, Len(s) - 1)
    ELSE s

\* a read that answers the empty text for a path that does not exist
GetFileContentEmpty(w, file_path, commit) ==
    IF commit # "none"
    THEN (IF commit \in Commits /\ Tree(commit)[file_path] # Absent
          THEN strip_newline_in_stdout(Tree(commit)[file_path]) ELSE "")
    ELSE (IF w[file_path] # Absent THEN w[file_path] ELSE "")

\* get_file_content(file_path, commit): None is Absent, and "none" is the
\* argument commit=None. With a commit the text is the output of git show,
\* without one it is read_text() of the file on disk; a GitCommandError
\* (unknown commit, path not in the commit) is None
get_file_content(w, file_path, commit) ==
    IF commit # "none"
    THEN (IF commit \in Commits /\ Tree(commit)[file_path] # Absent
          THEN strip_newline_in_stdout(Tree(commit)[file_path]) ELSE Absent)
    ELSE w[file_path]

\* the loop of get_pr_solution over pr_info.files_changed, on the working
\* copy w it reads after checkout_after_pr; `if content:` drops "" as well
\* as None
pr_solution_files(w, pr) ==
    [p \in Paths |->
        IF /\ \E i \in 1..Len(pr.files_changed) :
                 /\ pr.files_changed[i].filename = p
                 /\ pr.files_changed[i].status \in {"added", "modified"}
           /\ get_file_content(w, p, "none") \notin {Absent, ""}
        THEN get_file_content(w, p, "none")
        ELSE Absent]

\* the record of a GitManager call: op names the call, result is what it
\* returned, and for clean() prev names the call made before it
NoGitCall == [op |-> "none", pr |-> 0, raised |-> FALSE, removed |-> {},
              path |-> "", commit |-> "none", result |-> Absent,
              prev |-> "none"]

\* clone_or_update that lets a failed fetch escape
CloneOrUpdateFetchFatal(netOk) ==
    /\ gitCall' = [NoGitCall EXCEPT
                     !.op = "clone_or_update",
                     !.raised = ~netOk,
                     !.result = IF localCopy
                                THEN (IF netOk THEN "fetched" ELSE "fetch_failed")
                                ELSE (IF netOk THEN "cloned" ELSE "clone_failed")]
    /\ IF localCopy
       THEN /\ repo' = IF netOk THEN "ready" ELSE repo
            /\ UNCHANGED <<localCopy, head, index, wc>>
       ELSE IF netOk
       THEN /\ repo' = "ready"
            /\ localCopy' = TRUE
            /\ head' = DefaultHead
            /\ index' = TreePaths(DefaultHead)
            /\ wc' = Tree(DefaultHead)
       ELSE UNCHANGED <<repo, localCopy, head, index, wc>>
    /\ UNCHANGED solution

\* clone_or_update, with the network up or down: with a local copy the
\* fetch may fail and the GitCommandError is caught; without one the clone
\* succeeds or its error propagates with self.repo still None
clone_or_update(netOk) ==
    /\ gitCall' = [NoGitCall EXCEPT
                     !.op = "clone_or_update",
                     !.raised = ~localCopy /\ ~netOk,
                     !.result = IF localCopy
                                THEN (IF netOk THEN "fetched" ELSE "fetch_failed")
                                ELSE (IF netOk THEN "cloned" ELSE "clone_failed")]
    /\ IF localCopy
       THEN /\ repo' = "ready"
            /\ UNCHANGED <<localCopy, head, index, wc>>
       ELSE IF netOk
       THEN /\ repo' = "ready"
            /\ localCopy' = TRUE
            /\ head' = DefaultHead
            /\ index' = TreePaths(DefaultHead)
            /\ wc' = Tree(DefaultHead)
       ELSE UNCHANGED <<repo, localCopy, head, index, wc>>
    /\ UNCHANGED solution

\* checkout_before_pr without the test of self.repo
CheckoutWithoutInit(n) ==
    LET pr == PRInfo(n)
        ok == localCopy /\ pr.base_commit_sha \in Commits
    IN  /\ gitCall' = [NoGitCall EXCEPT !.op = "checkout_before_pr", !.pr = n,
                                        !.raised = ~ok]
        /\ IF ok
           THEN /\ wc' = checkout_force(wc, index, pr.base_commit_sha)
                /\ index' = TreePaths(pr.base_commit_sha)
                /\ head' = pr.base_commit_sha
           ELSE UNCHANGED <<wc, index, head>>
        /\ UNCHANGED <<localCopy, repo, solution>>

\* checkout_before_pr(pr): raises when self.repo is None or the commit does
\* not resolve
checkout_before_pr(n) ==
    LET pr == PRInfo(n)
        ok == repo = "ready" /\ pr.base_commit_sha \in Commits
    IN  /\ gitCall' = [NoGitCall EXCEPT !.op = "checkout_before_pr", !.pr = n,
                                        !.raised = ~ok]
        /\ IF ok
           THEN /\ wc' = checkout_force(wc, index, pr.base_commit_sha)
                /\ index' = TreePaths(pr.base_commit_sha)
                /\ head' = pr.base_commit_sha
           ELSE UNCHANGED <<wc, index, head>>
        /\ UNCHANGED <<localCopy, repo, solution>>

\* checkout_after_pr(pr)
checkout_after_pr(n) ==
    LET pr == PRInfo(n)
        ok == repo = "ready" /\ pr.merge_commit_sha \in Commits
    IN  /\ gitCall' = [NoGitCall EXCEPT !.op = "checkout_after_pr", !.pr = n,
                                        !.raised = ~ok]
        /\ IF ok
           THEN /\ wc' = checkout_force(wc, index, pr.merge_commit_sha)
                /\ index' = TreePaths(pr.merge_commit_sha)
                /\ head' = pr.merge_commit_sha
           ELSE UNCHANGED <<wc, index, head>>
        /\ UNCHANGED <<localCopy, repo, solution>>

\* _time_travel_before_pr(pr): checkout_before_pr, then clean()
_time_travel_before_pr(n) ==
    LET pr == PRInfo(n)
        ok == repo = "ready" /\ pr.base_commit_sha \in Commits
        w1 == checkout_force(wc, index, pr.base_commit_sha)
        w2 == clean(w1, TreePaths(pr.base_commit_sha), {})
    IN  /\ gitCall' = [NoGitCall EXCEPT
                         !.op = "_time_travel_before_pr", !.pr = n,
                         !.raised = ~ok,
                         !.removed = IF ok
                                     THEN {p \in Paths \ index :
                                             wc[p] # Absent /\ w2[p] = Absent}
                                     ELSE {}]
        /\ IF ok
           THEN /\ wc' = w2
                /\ index' = TreePaths(pr.base_commit_sha)
                /\ head' = pr.base_commit_sha
           ELSE UNCHANGED <<wc, index, head>>
        /\ UNCHANGED <<localCopy, repo, solution>>

\* get_pr_solution(pr): checkout_after_pr, then the files read from the
\* working copy
get_pr_solution(n) ==
    LET pr == PRInfo(n)
        ok == repo = "ready" /\ pr.merge_commit_sha \in Commits
        w1 == checkout_force(wc, index, pr.merge_commit_sha)
    IN  /\ gitCall' = [NoGitCall EXCEPT !.op = "get_pr_solution", !.pr = n,
                                        !.raised = ~ok]
        /\ IF ok
           THEN /\ wc' = w1
                /\ index' = TreePaths(pr.merge_commit_sha)
                /\ head' = pr.merge_commit_sha
                /\ solution' = pr_solution_files(w1, pr)
           ELSE UNCHANGED <<wc, index, head, solution>>
        /\ UNCHANGED <<localCopy, repo>>

\* one write or delete of a file of the working copy, by the agent or by a
\* build it runs
AgentEdits == {<<p, c>> : p \in Paths, c \in Contents \cup {Absent}}
ApplyEdit(w, e) == [w EXCEPT ![e[1]] = e[2]]

\* the commit arguments a caller passes to get_file_content: None, a commit
\* of the repository, an id that does not resolve
CommitArgs == {"none", "zz"} \cup Commits

(* The calls as a caller of GitManager makes them, in any order *)

CloneOrUpdate ==
    /\ \E netOk \in BOOLEAN : clone_or_update(netOk)
    /\ UNCHANGED ledgerVars
    /\ UNCHANGED runVars
    /\ UNCHANGED catVars

CheckoutBeforePr ==
    /\ \E n \in PRIds : checkout_before_pr(n)
    /\ UNCHANGED ledgerVars
    /\ UNCHANGED runVars
    /\ UNCHANGED catVars

CheckoutAfterPr ==
    /\ \E n \in PRIds : checkout_after_pr(n)
    /\ UNCHANGED ledgerVars
    /\ UNCHANGED runVars
    /\ UNCHANGED catVars

GetFileContent ==
    /\ \E p \in Paths, c \in CommitArgs :
        gitCall' = [NoGitCall EXCEPT
                      !.op = "get_file_content",
                      !.raised = (repo # "ready"),
                      !.path = p,
                      !.commit = c,
                      !.result = IF repo = "ready"
                                 THEN get_file_content(wc, p, c) ELSE Absent]
    /\ UNCHANGED <<localCopy, repo, head, index, wc, solution>>
    /\ UNCHANGED ledgerVars
    /\ UNCHANGED runVars
    /\ UNCHANGED catVars

Clean ==
    /\ gitCall' = [NoGitCall EXCEPT
                     !.op = "clean",
                     !.raised = (repo # "ready"),
                     !.removed = IF repo = "ready"
                                 THEN {p \in Paths : wc[p] # Absent
                                         /\ clean(wc, index, {})[p] = Absent}
                                 ELSE {},
                     !.prev = gitCall.op]
    /\ wc' = IF repo = "ready" THEN clean(wc, index, {}) ELSE wc
    /\ UNCHANGED <<localCopy, repo, head, index, solution>>
    /\ UNCHANGED ledgerVars
    /\ UNCHANGED runVars
    /\ UNCHANGED catVars

TimeTravelBeforePr ==
    /\ \E n \in PRIds : _time_travel_before_pr(n)
    /\ UNCHANGED ledgerVars
    /\ UNCHANGED runVars
    /\ UNCHANGED catVars

AgentEdit ==
    /\ repo = "ready"
    /\ \E e \in AgentEdits :
        /\ wc[e[1]] # e[2]
        /\ wc' = ApplyEdit(wc, e)
    /\ gitCall' = [NoGitCall EXCEPT !.op = "agent_edit"]
    /\ UNCHANGED <<localCopy, repo, head, index, solution>>
    /\ UNCHANGED ledgerVars
    /\ UNCHANGED runVars
    /\ UNCHANGED catVars

GetPrSolution ==
    /\ \E n \in PRIds : get_pr_solution(n)
    /\ UNCHANGED ledgerVars
    /\ UNCHANGED runVars
    /\ UNCHANGED catVars

NextGit ==
    \/ CloneOrUpdate
    \/ CheckoutBeforePr
    \/ CheckoutAfterPr
    \/ GetFileContent
    \/ Clean
    \/ TimeTravelBeforePr
    \/ AgentEdit
    \/ GetPrSolution

----------------------------------------------------------------------------
(* The Analyzed-Set ledger: core.py, _load_analyzed_prs / _save_analyzed_pr *)

\* sorted(analyzed): the ascending list of a finite set of integers
RECURSIVE sorted(_)
sorted(S) == IF S = {} THEN <<>>
             ELSE LET m == Min(S) IN <<m>> \o sorted(S \ {m})

\* The states of the ledger file, by what json.loads and data.get make of it:
\*   missing       the file does not exist
\*   invalid_json  the text is not JSON (json.JSONDecodeError)
\*   not_object    valid JSON whose top-level value is not an object
\*   no_key        a JSON object without the key "analyzed_prs"
\*   not_list      a JSON object whose "analyzed_prs" is a number or null
\*   ok            a JSON object whose "analyzed_prs" is an array of integers
LedgerKinds == {"missing", "invalid_json", "not_object", "no_key", "not_list", "ok"}

MissingFile == [kind |-> "missing", analyzed_prs |-> <<>>, last_updated |-> 0]

\* the files _save_analyzed_pr can have written, and the files that are not
\* a ledger it wrote
LedgerFiles ==
    {[kind |-> k, analyzed_prs |-> <<>>, last_updated |-> 0] :
        k \in LedgerKinds \ {"ok"}}
    \cup {[kind |-> "ok", analyzed_prs |-> sorted(S), last_updated |-> 0] :
        S \in SUBSET PRIds}

\* a load that never finds an id
LoadForgets(file) == [raised |-> FALSE, set |-> {}]

\* _load_analyzed_prs: the outcome is a returned set or a raised exception.
\* Only json.JSONDecodeError and KeyError are caught.
_load_analyzed_prs(file) ==
    CASE file.kind = "missing" -> [raised |-> FALSE, set |-> {}]
      [] file.kind = "invalid_json" -> [raised |-> FALSE, set |-> {}]
      [] file.kind = "not_object" -> [raised |-> TRUE, set |-> {}]  \* AttributeError: .get
      [] file.kind = "no_key" -> [raised |-> FALSE, set |-> {}]
      [] file.kind = "not_list" -> [raised |-> TRUE, set |-> {}]    \* TypeError: set(5)
      [] OTHER -> [raised |-> FALSE, set |-> Range(file.analyzed_prs)]

\* a save that forgets what was loaded
SaveForgets(file, pr_number, t) ==
    IF _load_analyzed_prs(file).raised THEN file
    ELSE [kind |-> "ok", analyzed_prs |-> <<pr_number>>, last_updated |-> t]

\* a save that appends to the array without the set
SaveAppends(file, pr_number, t) ==
    IF _load_analyzed_prs(file).raised THEN file
    ELSE [kind |-> "ok",
          analyzed_prs |-> sorted(_load_analyzed_prs(file).set) \o <<pr_number>>,
          last_updated |-> t]

\* _save_analyzed_pr: the file after the call at time t; when the load raises
\* the exception propagates before write_text and the file is as before
_save_analyzed_pr(file, pr_number, t) ==
    IF _load_analyzed_prs(file).raised THEN file
    ELSE [kind |-> "ok",
          analyzed_prs |-> sorted(_load_analyzed_prs(file).set \cup {pr_number}),
          last_updated |-> t]

\* datetime.now(UTC): the clock advances between two reads, up to the bound
Tick(t) == IF t < MaxClock THEN t + 1 ELSE t

NoCall == [op |-> "none", arg |-> 0, raised |-> FALSE, set |-> {}, before |-> MissingFile]

\* a call of _load_analyzed_prs
LoadCall ==
    /\ call' = [op |-> "load", arg |-> 0,
                raised |-> _load_analyzed_prs(ledgerFile).raised,
                set |-> _load_analyzed_prs(ledgerFile).set,
                before |-> ledgerFile]
    /\ UNCHANGED <<ledgerFile, now, marked>>
    /\ UNCHANGED gitVars
    /\ UNCHANGED runVars
    /\ UNCHANGED catVars

\* a call of _save_analyzed_pr(x)
SaveCall ==
    \E x \in PRIds :
        /\ ledgerFile' = _save_analyzed_pr(ledgerFile, x, now)
        /\ now' = Tick(now)
        /\ call' = [op |-> "save", arg |-> x,
                    raised |-> _load_analyzed_prs(ledgerFile).raised,
                    set |-> {},
                    before |-> ledgerFile]
        /\ marked' = IF _load_analyzed_prs(ledgerFile).raised
                     THEN marked ELSE marked \cup {x}
        /\ UNCHANGED gitVars
        /\ UNCHANGED runVars
        /\ UNCHANGED catVars

NextLedger == LoadCall \/ SaveCall

----------------------------------------------------------------------------
(* The Cycle Orchestrator: core.py, run_improvement_cycle *)

\* how many runs are started
MaxRuns == 2
\* the longest list of PRs the host returns to one search
MaxHostLen == 2
\* the largest max_iterations a caller asks for
MaxLimit == 2
\* the largest configured max_attempts_per_pr
MaxAttempts == 2
\* the oversampling margin of search_prs
Margin == 10

Take(s, k) == SubSeq(s, 1, IF k < Len(s) THEN k ELSE Len(s))

\* the lists get_merged_prs can return: PR numbers in any order, each PR
\* of the host once
HostLists ==
    {h \in UNION {[1..k -> PRIds] : k \in 0..MaxHostLen} :
        \A i, j \in 1..Len(h) : h[i] = h[j] => i = j}

\* random.shuffle: every reordering of the list
Shuffles(s) ==
    {[i \in 1..Len(s) |-> s[f[i]]] :
        f \in {g \in [1..Len(s) -> 1..Len(s)] :
                 \A i, j \in 1..Len(s) : g[i] = g[j] => i = j}}

\* a fetch limit without the compensation
FetchLimitNoCompensation(limit, analyzed) == limit

\* `fetch_limit = limit + len(analyzed_prs) + 10 + offset`, offset 0
fetch_limit(limit, analyzed) == limit + Cardinality(analyzed) + Margin

\* a search that does not skip the analyzed PRs
SearchKeepsAnalyzed(hostprs, analyzed, resolved) ==
    SelectSeq(hostprs, LAMBDA n : PRInfo(n).linked_issue \/ n \in resolved)

\* search_prs, on the list get_merged_prs returned: the PRs not analyzed that
\* have a linked issue or one the tracker resolves from their text
search_prs(hostprs, analyzed, resolved) ==
    SelectSeq(hostprs, LAMBDA n : /\ n \notin analyzed
                                  /\ (PRInfo(n).linked_issue \/ n \in resolved))

\* _detect_changed_files and the loop after it: the changed paths that
\* exist, with their content
changed_files(w, commit) ==
    [p \in Paths |-> IF p \notin IgnoredPaths /\ w[p] # Tree(commit)[p]
                     THEN w[p] ELSE Absent]

\* the body of the attempt loop of _process_pr, in order; the loop breaks
\* after the last statement
ProcessPrSaveEarly ==
    <<"time_travel", "generate", "get_pr_solution", "save", "analyze">>
\* an attempt loop that runs the agent before the checkout of the base commit
ProcessPrAgentFirst ==
    <<"generate", "time_travel", "get_pr_solution", "analyze", "save">>
ProcessPrSteps ==
    <<"time_travel", "generate", "get_pr_solution", "analyze", "save">>
StepAfter(s) ==
    LET i == CHOOSE k \in 1..Len(ProcessPrSteps) : ProcessPrSteps[k] = s
    IN  IF i < Len(ProcessPrSteps) THEN ProcessPrSteps[i + 1] ELSE "end"

NoSession == [pr |-> 0, attempts |-> 0, success |-> FALSE, best_score |-> 0]
NewRun == [sessions |-> <<>>, total_prs |-> 0, successful_prs |-> 0,
           average_score |-> 0, completed |-> FALSE]

\* sum(s.best_score for s in sessions)
RECURSIVE total_score(_)
total_score(sessions) ==
    IF sessions = <<>> THEN 0
    ELSE Head(sessions).best_score + total_score(Tail(sessions))

\* a count that takes every session for a success
RecordSessionCountsAll(run, s) ==
    [run EXCEPT !.sessions = Append(@, s),
                !.total_prs = @ + 1,
                !.successful_prs = @ + 1]

\* run_improvement_cycle, lines 146-152: the session is appended and counted
record_session(run, s) ==
    [run EXCEPT !.sessions = Append(@, s),
                !.total_prs = @ + 1,
                !.successful_prs = IF s.success THEN @ + 1 ELSE @]

\* _finalize_run: the average is computed only over a non-empty list
finalize_run(run) ==
    [run EXCEPT !.completed = TRUE,
                !.average_score = IF run.sessions # <<>>
                                  THEN total_score(run.sessions) \div Len(run.sessions)
                                  ELSE @]

\* what the agent does to the working copy during one run of it
RunEdits == {<<>>, <<<<"b.py", "x=2\n">>>>, <<<<"build.log", "x=1\n">>>>}
ApplyEdits(w, es) == IF es = <<>> THEN w ELSE ApplyEdit(w, es[1])

\* what analyze_and_learn puts into the analysis prompt: the text
\* _format_solution makes of each Solution (every file with its full content)
\* and, if one is built, the report of _create_solution_diff
_format_solution(files) == {<<p, files[p]>> : p \in {q \in Paths : files[q] # Absent}}

NoPrompt == [built |-> FALSE, developer_solution |-> {}, agent_solution |-> {},
             has_diff |-> FALSE, diff |-> <<>>]

\* analyzer.py 89-107: the prompt of analyze_and_learn
analysis_prompt(developer_solution, agent_solution) ==
    [built |-> TRUE,
     developer_solution |-> _format_solution(developer_solution),
     agent_solution |-> _format_solution(agent_solution),
     has_diff |-> FALSE, diff |-> <<>>]

\* run_improvement_cycle is called: lines 123-128
StartRun ==
    /\ pc \in {"idle", "returned"} \/ raised
    /\ runNo < MaxRuns
    /\ runNo' = runNo + 1
    /\ \E sp \in {0} \cup PRIds, lim \in 1..MaxLimit :
        /\ specific_pr' = sp
        /\ max_iterations' = lim
    /\ current_run' = NewRun
    /\ pc' = "setup"
    /\ raised' = FALSE
    /\ prs' = <<>>
    /\ idx' = 0
    /\ session' = NoSession
    /\ steps' = <<>>
    /\ analyzed_prs' = {}
    /\ skipped' = {}
    /\ savedPrevRun' = savedThisRun
    /\ savedThisRun' = {}
    /\ claude_solution' = NoFiles
    /\ solution' = NoFiles
    /\ gitCall' = NoGitCall
    /\ UNCHANGED <<localCopy, repo, head, index, wc>>
    /\ UNCHANGED <<max_attempts_per_pr, agentMd, repeated>>
    /\ UNCHANGED ledgerVars
    /\ prompt' = NoPrompt
    /\ UNCHANGED <<scan, matchCall, selCall, diffCall, trackerCall, genCall>>

\* _setup_repository
SetupRepository ==
    /\ pc = "setup" /\ ~raised
    /\ \E netOk \in BOOLEAN : clone_or_update(netOk)
    /\ IF gitCall'.raised
       THEN raised' = TRUE /\ pc' = pc
       ELSE raised' = FALSE /\ pc' = "research"
    /\ UNCHANGED <<max_attempts_per_pr, agentMd, runNo, specific_pr,
                   max_iterations, analyzed_prs, skipped, prs, idx, session,
                   claude_solution, current_run, steps, savedThisRun,
                   savedPrevRun, repeated>>
    /\ UNCHANGED ledgerVars
    /\ UNCHANGED catVars

\* _research_phase: skipped when the context file exists; otherwise the agent
\* writes it or the phase raises
ResearchPhase ==
    /\ pc = "research" /\ ~raised
    /\ \E created \in BOOLEAN :
        /\ agentMd' = (agentMd \/ created)
        /\ IF agentMd'
           THEN raised' = FALSE /\ pc' = "select"
           ELSE raised' = TRUE /\ pc' = pc
    /\ UNCHANGED <<max_attempts_per_pr, runNo, specific_pr, max_iterations,
                   analyzed_prs, skipped, prs, idx, session, claude_solution,
                   current_run, steps, savedThisRun, savedPrevRun, repeated>>
    /\ UNCHANGED ledgerVars
    /\ UNCHANGED gitVars
    /\ UNCHANGED catVars

\* Step 3 with specific_pr: get_pr answers or raises
SelectSpecificPr ==
    /\ pc = "select" /\ ~raised
    /\ specific_pr # 0
    /\ \E found \in BOOLEAN :
        IF found
        THEN /\ prs' = <<specific_pr>>
             /\ pc' = "begin"
             /\ idx' = 1
             /\ raised' = FALSE
        ELSE /\ raised' = TRUE
             /\ UNCHANGED <<prs, pc, idx>>
    /\ UNCHANGED <<max_attempts_per_pr, agentMd, runNo, specific_pr,
                   max_iterations, analyzed_prs, skipped, session,
                   claude_solution, current_run, steps, savedThisRun,
                   savedPrevRun, repeated>>
    /\ UNCHANGED ledgerVars
    /\ UNCHANGED gitVars
    /\ UNCHANGED catVars

\* Step 3 without specific_pr: _select_prs(max_iterations)
SelectPrs ==
    /\ pc = "select" /\ ~raised
    /\ specific_pr = 0
    /\ LET loaded == _load_analyzed_prs(ledgerFile)
       IN  IF loaded.raised
           THEN /\ raised' = TRUE
                /\ UNCHANGED <<analyzed_prs, skipped, prs, pc, idx>>
           ELSE \E host \in HostLists :
                \E resolved \in SUBSET {n \in Range(host) : ~PRInfo(n).linked_issue} :
                  LET hostprs == Take(host, fetch_limit(max_iterations, loaded.set))
                  IN
                  \E shuffled \in Shuffles(search_prs(hostprs, loaded.set, resolved)) :
                    /\ analyzed_prs' = loaded.set
                    /\ skipped' = Range(hostprs) \cap loaded.set
                    /\ prs' = Take(shuffled, max_iterations)
                    /\ idx' = 1
                    /\ pc' = IF prs' = <<>> THEN "finalize" ELSE "begin"
                    /\ raised' = FALSE
    /\ UNCHANGED <<max_attempts_per_pr, agentMd, runNo, specific_pr,
                   max_iterations, session, claude_solution, current_run, steps,
                   savedThisRun, savedPrevRun, repeated>>
    /\ UNCHANGED ledgerVars
    /\ UNCHANGED gitVars
    /\ UNCHANGED catVars

\* _process_pr, lines 374-387: the session is created and the attempt loop
\* is entered, or skipped when range(1, max_attempts_per_pr + 1) is empty
BeginPr ==
    /\ pc = "begin" /\ ~raised
    /\ steps' = <<>>
    /\ IF max_attempts_per_pr >= 1
       THEN /\ session' = [pr |-> prs[idx], attempts |-> 1, success |-> FALSE,
                           best_score |-> 0]
            /\ pc' = ProcessPrSteps[1]
       ELSE /\ session' = [pr |-> prs[idx], attempts |-> 0, success |-> FALSE,
                           best_score |-> 0]
            /\ pc' = "end"
    /\ claude_solution' = NoFiles
    /\ solution' = NoFiles
    /\ UNCHANGED <<localCopy, repo, head, index, wc, gitCall>>
    /\ UNCHANGED <<max_attempts_per_pr, agentMd, raised, runNo, specific_pr,
                   max_iterations, analyzed_prs, skipped, prs, idx,
                   current_run, savedThisRun, savedPrevRun, repeated>>
    /\ UNCHANGED ledgerVars
    /\ prompt' = NoPrompt
    /\ UNCHANGED <<scan, matchCall, selCall, diffCall, trackerCall, genCall>>

\* line 390: self._time_travel_before_pr(pr)
TimeTravel ==
    /\ pc = "time_travel" /\ ~raised
    /\ _time_travel_before_pr(session.pr)
    /\ IF gitCall'.raised
       THEN raised' = TRUE /\ pc' = pc /\ steps' = steps
       ELSE /\ raised' = FALSE
            /\ pc' = StepAfter(pc)
            /\ steps' = steps \o <<"checkout_before", "clean">>
    /\ UNCHANGED <<max_attempts_per_pr, agentMd, runNo, specific_pr,
                   max_iterations, analyzed_prs, skipped, prs, idx, session,
                   claude_solution, current_run, savedThisRun, savedPrevRun,
                   repeated>>
    /\ UNCHANGED ledgerVars
    /\ UNCHANGED catVars

\* lines 393-394: the agent edits the working copy, then returns success or
\* fails (non-zero return code, timeout)
GenerateSolution ==
    /\ pc = "generate" /\ ~raised
    /\ \E es \in RunEdits, ok \in BOOLEAN :
        /\ wc' = ApplyEdits(wc, es)
        /\ IF ok
           THEN /\ claude_solution' = changed_files(wc', head)
                /\ raised' = FALSE
                /\ pc' = StepAfter(pc)
                /\ steps' = Append(steps, "agent")
           ELSE /\ raised' = TRUE
                /\ UNCHANGED <<claude_solution, pc, steps>>
    /\ gitCall' = [NoGitCall EXCEPT !.op = "agent_edit"]
    /\ UNCHANGED <<localCopy, repo, head, index, solution>>
    /\ UNCHANGED <<max_attempts_per_pr, agentMd, runNo, specific_pr,
                   max_iterations, analyzed_prs, skipped, prs, idx, session,
                   current_run, savedThisRun, savedPrevRun, repeated>>
    /\ UNCHANGED ledgerVars
    /\ UNCHANGED catVars

\* lines 397-398: developer_solution = self.git_manager.get_pr_solution(pr)
GetDeveloperSolution ==
    /\ pc = "get_pr_solution" /\ ~raised
    /\ get_pr_solution(session.pr)
    /\ IF gitCall'.raised
       THEN raised' = TRUE /\ pc' = pc /\ steps' = steps
       ELSE /\ raised' = FALSE
            /\ pc' = StepAfter(pc)
            /\ steps' = steps \o <<"checkout_after", "extract">>
    /\ UNCHANGED <<max_attempts_per_pr, agentMd, runNo, specific_pr,
                   max_iterations, analyzed_prs, skipped, prs, idx, session,
                   claude_solution, current_run, savedThisRun, savedPrevRun,
                   repeated>>
    /\ UNCHANGED ledgerVars
    /\ UNCHANGED catVars

\* line 402: _analyze_and_learn builds the prompt of the analysis run, which
\* then returns or raises
AnalyzeAndLearn ==
    /\ pc = "analyze" /\ ~raised
    /\ prompt' = analysis_prompt(solution, claude_solution)
    /\ \E ok \in BOOLEAN :
        IF ok
        THEN /\ raised' = FALSE
             /\ pc' = StepAfter(pc)
             /\ steps' = Append(steps, "analyze")
        ELSE /\ raised' = TRUE
             /\ UNCHANGED <<pc, steps>>
    /\ UNCHANGED <<max_attempts_per_pr, agentMd, runNo, specific_pr,
                   max_iterations, analyzed_prs, skipped, prs, idx, session,
                   claude_solution, current_run, savedThisRun, savedPrevRun,
                   repeated>>
    /\ UNCHANGED ledgerVars
    /\ UNCHANGED gitVars
    /\ UNCHANGED <<scan, matchCall, selCall, diffCall, trackerCall, genCall>>

\* a cycle that completes without setting the flag of its session
MarkSuccessForgets(s) == s

\* line 404: session.success = True
mark_success(s) == [s EXCEPT !.success = TRUE]

\* lines 404-408: session.success = True, then _save_analyzed_pr(pr.number)
SaveAnalyzed ==
    /\ pc = "save" /\ ~raised
    /\ session' = mark_success(session)
    /\ ledgerFile' = _save_analyzed_pr(ledgerFile, session.pr, now)
    /\ now' = Tick(now)
    /\ call' = call
    /\ IF _load_analyzed_prs(ledgerFile).raised
       THEN /\ raised' = TRUE
            /\ UNCHANGED <<pc, steps, marked, savedThisRun, repeated>>
       ELSE /\ raised' = FALSE
            /\ pc' = StepAfter(pc)
            /\ steps' = Append(steps, "save")
            /\ marked' = marked \cup {session.pr}
            /\ savedThisRun' = savedThisRun \cup {session.pr}
            /\ repeated' = (repeated \/ session.pr \in marked)
    /\ UNCHANGED <<max_attempts_per_pr, agentMd, runNo, specific_pr,
                   max_iterations, analyzed_prs, skipped, prs, idx,
                   claude_solution, current_run, savedPrevRun>>
    /\ UNCHANGED gitVars
    /\ UNCHANGED catVars

\* lines 147-152: the session is appended and counted
EndPr ==
    /\ pc = "end" /\ ~raised
    /\ current_run' = record_session(current_run, session)
    /\ idx' = idx + 1
    /\ pc' = IF idx < Len(prs) THEN "begin" ELSE "finalize"
    /\ UNCHANGED <<max_attempts_per_pr, agentMd, raised, runNo, specific_pr,
                   max_iterations, analyzed_prs, skipped, prs, session,
                   claude_solution, steps, savedThisRun, savedPrevRun, repeated>>
    /\ UNCHANGED ledgerVars
    /\ UNCHANGED gitVars
    /\ UNCHANGED catVars

\* _finalize_run, and the return of current_run
FinalizeRun ==
    /\ pc = "finalize" /\ ~raised
    /\ current_run' = finalize_run(current_run)
    /\ pc' = "returned"
    /\ UNCHANGED <<max_attempts_per_pr, agentMd, raised, runNo, specific_pr,
                   max_iterations, analyzed_prs, skipped, prs, idx, session,
                   claude_solution, steps, savedThisRun, savedPrevRun, repeated>>
    /\ UNCHANGED ledgerVars
    /\ UNCHANGED gitVars
    /\ UNCHANGED catVars

----------------------------------------------------------------------------
(* The PR Catalog: github_client.py, get_merged_prs / _matches_criteria *)

\* the most pages of results the host holds
MaxPages == 2

Labels == {"bug", "wip"}

\* PRSelectionCriteria with its default field values
DefaultCriteria ==
    [has_linked_issue |-> TRUE, min_files_changed |-> 1,
     max_files_changed |-> 20, exclude_labels |-> {}, include_labels |-> {}]

\* a bounds test that excludes both ends
MatchesStrictBounds(pr_info, criteria) ==
    /\ ~(criteria.has_linked_issue /\ ~pr_info.linked_issue)
    /\ ~(\/ Len(pr_info.files_changed) <= criteria.min_files_changed
         \/ Len(pr_info.files_changed) >= criteria.max_files_changed)
    /\ ~(/\ criteria.exclude_labels # {}
         /\ \E label \in criteria.exclude_labels : label \in pr_info.labels)
    /\ ~(/\ criteria.include_labels # {}
         /\ ~\E label \in criteria.include_labels : label \in pr_info.labels)

\* _matches_criteria: the four tests in order, each a `return False`
_matches_criteria(pr_info, criteria) ==
    /\ ~(criteria.has_linked_issue /\ ~pr_info.linked_issue)
    /\ ~(\/ Len(pr_info.files_changed) < criteria.min_files_changed
         \/ Len(pr_info.files_changed) > criteria.max_files_changed)
    /\ ~(/\ criteria.exclude_labels # {}
         /\ \E label \in criteria.exclude_labels : label \in pr_info.labels)
    /\ ~(/\ criteria.include_labels # {}
         /\ ~\E label \in criteria.include_labels : label \in pr_info.labels)

\* _parse_pr: when the request for the changed files fails the PRInfo is
\* built with an empty file list
_parse_pr(n, filesOk) ==
    [PRInfo(n) EXCEPT !.files_changed = IF filesOk THEN @ ELSE <<>>]

\* what the requests for one PR of a page lead to:
\*   ok            details and files fetched and parsed
\*   details_fail  get_pr raises a RequestException (network, HTTP status,
\*                 a body that is not JSON)
\*   files_fail    the request for the files raises a RequestException
\*   bad_shape     the JSON lacks a field _parse_pr reads (KeyError, or a
\*                 validation error of PRInfo)
PrOutcomes == {"ok", "details_fail", "files_fail", "bad_shape"}

\* the pages of results the host holds: each page non-empty, each PR of the
\* host once; past the last page the host answers an empty page
HostPages ==
    {pp \in UNION {[1..k -> HostLists \ {<<>>}] : k \in 0..MaxPages} :
        \A a, b \in 1..Len(pp) :
            a # b => Range(pp[a]) \cap Range(pp[b]) = {}}

RECURSIVE Flatten(_)
Flatten(pp) == IF pp = <<>> THEN <<>> ELSE Head(pp) \o Flatten(Tail(pp))

\* the criteria the scans are run with
ScanCriteria ==
    {[DefaultCriteria EXCEPT !.has_linked_issue = h, !.min_files_changed = m] :
        h \in BOOLEAN, m \in 0..2}

\* `while len(all_prs) < limit`
loop_continues(all_prs, limit) == Len(all_prs) < limit

\* an inner loop that never breaks
LimitNeverReached(all_prs, limit) == FALSE

\* `if len(all_prs) >= limit: break`
limit_reached(all_prs, limit) == Len(all_prs) >= limit

NoScan == [pc |-> "idle", pages |-> <<>>, criteria |-> DefaultCriteria,
           limit |-> 0, page |-> 0, i |-> 0, all_prs |-> <<>>,
           nofiles |-> {}, failed |-> {}, stop |-> "none"]

\* get_merged_prs(repo, criteria, limit) is called: lines 58-74
CallGetMergedPrs ==
    /\ scan.pc = "idle"
    /\ \E limit \in 0..MaxLimit :
        scan' = [scan EXCEPT !.pc = "while", !.limit = limit, !.page = 1]
    /\ UNCHANGED <<matchCall, selCall, fnVars>>
    /\ UNCHANGED ledgerVars
    /\ UNCHANGED gitVars
    /\ UNCHANGED runVars

\* lines 76-89: one more page is requested; a failed request or an empty
\* page breaks the loop
FetchPage ==
    /\ scan.pc = "while"
    /\ loop_continues(scan.all_prs, scan.limit)
    /\ \E requestOk \in BOOLEAN :
        LET items == IF scan.page <= Len(scan.pages)
                     THEN scan.pages[scan.page] ELSE <<>>
        IN  scan' = IF ~requestOk
                    THEN [scan EXCEPT !.pc = "returned", !.stop = "request_failed"]
                    ELSE IF items = <<>>
                    THEN [scan EXCEPT !.pc = "returned", !.stop = "empty_page"]
                    ELSE [scan EXCEPT !.pc = "for", !.i = 1]
    /\ UNCHANGED <<matchCall, selCall, fnVars>>
    /\ UNCHANGED ledgerVars
    /\ UNCHANGED gitVars
    /\ UNCHANGED runVars

\* lines 91-112: one item of the page
EvaluateItem ==
    /\ scan.pc = "for"
    /\ LET items == scan.pages[scan.page]
           n == items[scan.i]
           next == IF scan.i < Len(items)
                   THEN [scan EXCEPT !.i = @ + 1]
                   ELSE [scan EXCEPT !.pc = "while", !.i = 0, !.page = @ + 1]
       IN  \E outcome \in PrOutcomes :
            scan' =
              IF outcome = "bad_shape"
              THEN [scan EXCEPT !.pc = "raised", !.failed = @ \cup {n}]
              ELSE IF outcome = "details_fail"
              THEN [next EXCEPT !.failed = @ \cup {n}]
              ELSE LET pr_info == _parse_pr(n, outcome = "ok")
                       bad == IF outcome = "ok" THEN {} ELSE {n}
                   IN  IF ~_matches_criteria(pr_info, scan.criteria)
                       THEN [next EXCEPT !.failed = @ \cup bad]
                       ELSE IF limit_reached(Append(scan.all_prs, n), scan.limit)
                       THEN [scan EXCEPT !.all_prs = Append(@, n),
                                         !.nofiles = @ \cup bad,
                                         !.failed = @ \cup bad,
                                         !.pc = "while", !.i = 0,
                                         !.page = @ + 1]
                       ELSE [next EXCEPT !.all_prs = Append(@, n),
                                         !.nofiles = @ \cup bad,
                                         !.failed = @ \cup bad]
    /\ UNCHANGED <<matchCall, selCall, fnVars>>
    /\ UNCHANGED ledgerVars
    /\ UNCHANGED gitVars
    /\ UNCHANGED runVars

\* line 114, reached when the while test fails
ReturnPrs ==
    /\ scan.pc = "while"
    /\ ~loop_continues(scan.all_prs, scan.limit)
    /\ scan' = [scan EXCEPT !.pc = "returned", !.stop = "limit"]
    /\ UNCHANGED <<matchCall, selCall, fnVars>>
    /\ UNCHANGED ledgerVars
    /\ UNCHANGED gitVars
    /\ UNCHANGED runVars

NextCatalog ==
    \/ CallGetMergedPrs
    \/ FetchPage
    \/ EvaluateItem
    \/ ReturnPrs

(* _matches_criteria on its own, for any PR and any criteria *)

\* the most files a PR changes and the largest file-count bound of a criteria
MaxFiles == 3

FileList(k) == [i \in 1..k |-> [filename |-> "a.py", status |-> "modified"]]

NoMatchCall ==
    [done |-> FALSE,
     pr_info |-> [linked_issue |-> FALSE, files_changed |-> <<>>, labels |-> {}],
     criteria |-> DefaultCriteria,
     result |-> FALSE]

\* a call of _matches_criteria(pr_info, criteria)
MatchesCriteriaCall ==
    /\ ~matchCall.done
    /\ matchCall' = [matchCall EXCEPT
                       !.done = TRUE,
                       !.result = _matches_criteria(matchCall.pr_info,
                                                    matchCall.criteria)]
    /\ UNCHANGED <<scan, selCall, fnVars>>
    /\ UNCHANGED ledgerVars
    /\ UNCHANGED gitVars
    /\ UNCHANGED runVars

NextCriteria == MatchesCriteriaCall

(* _select_prs on a host that lists many PRs *)

\* the most PRs the host lists to _select_prs
HostSize == 14

\* the host's list, sorted by update time: here by number, either way
CatalogHosts ==
    {[i \in 1..k |-> i] : k \in 0..HostSize}
    \cup {[i \in 1..k |-> k + 1 - i] : k \in 0..HostSize}

\* what get_merged_prs returns when every request for a PR succeeds: the
\* first `limit` PRs of the host's list that match; nothing when the request
\* for the first page fails
get_merged_prs(host, criteria, limit, requestOk) ==
    IF ~requestOk THEN <<>>
    ELSE Take(SelectSeq(host, LAMBDA n : _matches_criteria(PRInfo(n), criteria)),
              limit)

\* random.shuffle(enriched_prs) then enriched_prs[:limit]: any `limit`
\* entries of the list, or all of them, in any order
ShuffleTake(s, limit) ==
    LET m == IF limit < Len(s) THEN limit ELSE Len(s)
    IN  {[i \in 1..m |-> s[f[i]]] :
            f \in {g \in [1..m -> 1..Len(s)] :
                     \A i, j \in 1..m : g[i] = g[j] => i = j}}

NoSelCall ==
    [done |-> FALSE, raised |-> FALSE, limit |-> 1, host |-> <<>>,
     criteria |-> DefaultCriteria, analyzed |-> {}, resolved |-> {},
     requestOk |-> TRUE, result |-> <<>>]

\* a call of _select_prs(limit): the load of the ledger, search_prs, the
\* shuffle and the cut
SelectPrsCall ==
    /\ ~selCall.done
    /\ LET loaded == _load_analyzed_prs(ledgerFile)
       IN  IF loaded.raised
           THEN selCall' = [selCall EXCEPT !.done = TRUE, !.raised = TRUE]
           ELSE \E requestOk \in BOOLEAN :
                \E resolved \in SUBSET {n \in Range(selCall.host) :
                                          n = 4 /\ ~PRInfo(n).linked_issue} :
                  LET merged == get_merged_prs(selCall.host, selCall.criteria,
                                               fetch_limit(selCall.limit, loaded.set),
                                               requestOk)
                  IN  \E selected \in ShuffleTake(
                                        search_prs(merged, loaded.set, resolved),
                                        selCall.limit) :
                        selCall' = [selCall EXCEPT
                                      !.done = TRUE,
                                      !.analyzed = loaded.set,
                                      !.resolved = resolved,
                                      !.requestOk = requestOk,
                                      !.result = selected]
    /\ UNCHANGED <<scan, matchCall, fnVars>>
    /\ UNCHANGED ledgerVars
    /\ UNCHANGED gitVars
    /\ UNCHANGED runVars

NextSelect == SelectPrsCall

----------------------------------------------------------------------------
(* Solution comparison (agent_clients/abstract_agent.py) *)

\* A file's content is held as content.splitlines(keepends=True): the list of
\* its lines, each with its line ending.  The list determines the content
\* (joining it gives the content back), so two contents are equal exactly
\* when their lists are; the empty content "" is the empty list.
MaxLines == 2
SourceLines == {"x=1\n", "x=2\n"}
FileContents == UNION {[1..k -> SourceLines] : k \in 0..MaxLines}

\* the filenames of Solutions, listed in lexicographic order
SortedNames == <<"a.py", "b.py", "build.log">>

\* Solution.files: a dict from filename to content
SolutionFiles == UNION {[D -> FileContents] : D \in SUBSET {"a.py", "b.py"}}

\* str.splitlines(keepends=True) of the contents of the repository model,
\* which have one line at most
splitlines(content) == IF content = "" THEN <<>> ELSE <<content>>

\* the dict Solution.files of a Solution read from the working copy
solution_files(files) ==
    [p \in {q \in Paths : files[q] # Absent} |-> splitlines(files[p])]

\* dict.get(filename, "")
files_get(files, filename) ==
    IF filename \in DOMAIN files THEN files[filename] ELSE <<>>

\* sorted(all_files)
sorted_names(all_files) == SelectSeq(SortedNames, LAMBDA f : f \in all_files)

\* difflib.SequenceMatcher.find_longest_match without junk: the longest block
\* a[i..i+k-1] = b[j..j+k-1]; of the longest, the one starting earliest in a,
\* and of those the one starting earliest in b; k = 0 when no line matches
find_longest_match(a, b) ==
    LET blocks == {m \in [i : 1..Len(a), j : 1..Len(b), k : 1..Len(a)] :
                      /\ m.i + m.k - 1 <= Len(a)
                      /\ m.j + m.k - 1 <= Len(b)
                      /\ SubSeq(a, m.i, m.i + m.k - 1) = SubSeq(b, m.j, m.j + m.k - 1)}
    IN  IF blocks = {} THEN [i |-> 1, j |-> 1, k |-> 0]
        ELSE CHOOSE m \in blocks :
                \A o \in blocks :
                    \/ o.k < m.k
                    \/ o.k = m.k /\ m.i < o.i
                    \/ o.k = m.k /\ m.i = o.i /\ m.j <= o.j

tagged(tag, s) == [n \in 1..Len(s) |-> [tag |-> tag, line |-> s[n]]]

\* the body of the hunk difflib.unified_diff(a, b) writes: the matching blocks
\* as context lines, and between them the lines of a as '-' lines followed by
\* the lines of b as '+' lines (the files compared here fit in one hunk)
RECURSIVE diff_lines(_, _)
diff_lines(a, b) ==
    LET m == find_longest_match(a, b)
    IN  IF m.k = 0
        THEN tagged("-", a) \o tagged("+", b)
        ELSE diff_lines(SubSeq(a, 1, m.i - 1), SubSeq(b, 1, m.j - 1))
             \o tagged(" ", SubSeq(a, m.i, m.i + m.k - 1))
             \o diff_lines(SubSeq(a, m.i + m.k, Len(a)),
                           SubSeq(b, m.j + m.k, Len(b)))

\* the diff run the other way round: from b to a
UnifiedDiffReversed(a, b) == IF a = b THEN <<>> ELSE diff_lines(b, a)

\* difflib.unified_diff(a, b, n=5): nothing for equal sequences
unified_diff(a, b) == IF a = b THEN <<>> ELSE diff_lines(a, b)

\* a comparison that leaves out the files equal on both sides' shortcut
DiffEntryNoShortcut(developer_solution, agent_solution, filename) ==
    LET dev_content == files_get(developer_solution, filename)
        agent_content == files_get(agent_solution, filename)
        diff_text == unified_diff(agent_content, dev_content)
    IN  IF diff_text # <<>>
        THEN [filename |-> filename, report |-> "diff", diff |-> diff_text]
        ELSE [filename |-> filename, report |-> "minor", diff |-> <<>>]

\* the body of the loop of _create_solution_diff: the part written for one
\* filename; report is "identical" ("(identical in both solutions)"), "diff"
\* (a ```diff block) or "minor" ("(minor differences, possibly whitespace)")
diff_entry(developer_solution, agent_solution, filename) ==
    LET dev_content == files_get(developer_solution, filename)
        agent_content == files_get(agent_solution, filename)
        diff_text == unified_diff(agent_content, dev_content)
    IN  IF dev_content = agent_content
        THEN [filename |-> filename, report |-> "identical", diff |-> <<>>]
        ELSE IF diff_text # <<>>
        THEN [filename |-> filename, report |-> "diff", diff |-> diff_text]
        ELSE [filename |-> filename, report |-> "minor", diff |-> <<>>]

\* _create_solution_diff: the parts in the order they are joined; no part
\* at all stands for the text "(no file differences found)"
_create_solution_diff(developer_solution, agent_solution) ==
    LET names == sorted_names(DOMAIN developer_solution \cup DOMAIN agent_solution)
    IN  [n \in 1..Len(names) |->
            diff_entry(developer_solution, agent_solution, names[n])]

NoDiffCall == [developer_solution |-> <<>>, agent_solution |-> <<>>,
               done |-> FALSE, result |-> <<>>]

CreateSolutionDiff ==
    /\ ~diffCall.done
    /\ diffCall' = [diffCall EXCEPT
                      !.done = TRUE,
                      !.result = _create_solution_diff(diffCall.developer_solution,
                                                       diffCall.agent_solution)]
    /\ UNCHANGED <<scan, matchCall, selCall, trackerCall, prompt, genCall>>
    /\ UNCHANGED ledgerVars
    /\ UNCHANGED gitVars
    /\ UNCHANGED runVars

NextDiff == CreateSolutionDiff

----------------------------------------------------------------------------
(* Issue-tracker clients (issues_tracker_clients/) *)

\* A text is held as the list of its tokens: words, whitespace, '#', '-',
\* runs of digits, ticket keys and issue URLs up to the identifier.  A regular
\* expression of the clients is matched token by token.
MaxTokens == 4

GithubIssuesUrl == "https://github.com/o/r/issues/"
TracTicketUrl == "https://code.djangoproject.com/ticket/"
JiraBrowseUrl == "https://jira.example.com/browse/"

Clients == {"github", "trac", "jira"}

TextTokens(client) ==
    CASE client = "github" -> {"Fixes", "fixed", " ", "#", "123", "7", GithubIssuesUrl}
      [] client = "trac" -> {"Fixed", "ticket", " ", "-", "#", "123", TracTicketUrl}
      [] client = "jira" -> {"Fixes", "see", " ", "PROJ-123", "abc-7", JiraBrowseUrl}

\* the tokens that begin or end with a letter or a digit: two of them in a
\* row would read as one longer word
Alnum == {"Fixes", "fixed", "Fixed", "ticket", "see", "123", "7", "PROJ-123", "abc-7"}
AlnumStart == Alnum \cup {GithubIssuesUrl, TracTicketUrl, JiraBrowseUrl}

Texts(client) ==
    {t \in UNION {[1..n -> TextTokens(client)] : n \in 0..MaxTokens} :
        \A k \in 1..(Len(t) - 1) : ~(t[k] \in Alnum /\ t[k + 1] \in AlnumStart)}

\* the keyword alternatives of the first pattern of each client
Keywords(client) ==
    CASE client = "github" -> {"fixes", "closes", "resolves", "fix", "close", "resolve"}
      [] client = "trac" -> {"fix", "fixes", "fixed", "close", "closes", "closed",
                             "resolve", "resolves", "resolved", "ref", "refs"}
      [] client = "jira" -> {"fix", "fixes", "fixed", "close", "closes", "closed",
                             "resolve", "resolves", "resolved"}

\* re.IGNORECASE: the lower-case form of a word token
lower(t) ==
    CASE t = "Fixes" -> "fixes"
      [] t = "Fixed" -> "fixed"
      [] OTHER -> t

\* str.upper() of a ticket key
upper(t) == IF t = "abc-7" THEN "ABC-7" ELSE t

KeywordTokens(client) == {t \in TextTokens(client) : lower(t) \in Keywords(client)}

\* (\d+)
Digits == {"123", "7"}
\* ([A-Z][A-Z0-9]+-\d+) under re.IGNORECASE
TicketKeys == {"PROJ-123", "abc-7"}

NoMatch == "<no match>"

\* the first position from k on whose token is not one of seps
skip(text, k, seps) ==
    CHOOSE p \in k..(Len(text) + 1) :
        /\ \A q \in k..(p - 1) : text[q] \in seps
        /\ p = Len(text) + 1 \/ text[p] \notin seps

\* the group of a pattern <head><seps>+<mid>?(<id>) matched with its head at
\* position k: seps = {} stands for no separator part, mid = {} for no middle
\* part, and midOptional for a '?' on the middle part
match_at(text, k, heads, seps, mid, midOptional, ids) ==
    LET p == skip(text, k + 1, seps)
        q == IF p <= Len(text) /\ text[p] \in mid THEN p + 1 ELSE p
    IN  IF /\ text[k] \in heads
           /\ seps = {} \/ p > k + 1
           /\ q = p + 1 \/ midOptional
           /\ q <= Len(text)
           /\ text[q] \in ids
        THEN text[q]
        ELSE NoMatch

\* re.search(pattern, text, re.IGNORECASE): the leftmost match, group(1)
re_search(text, heads, seps, mid, midOptional, ids) ==
    LET at == {k \in 1..Len(text) :
                  match_at(text, k, heads, seps, mid, midOptional, ids) # NoMatch}
    IN  IF at = {} THEN NoMatch
        ELSE match_at(text, CHOOSE k \in at : \A o \in at : k <= o,
                      heads, seps, mid, midOptional, ids)

\* re.search(rf"({ticket_pattern})", text): a ticket key anywhere
re_search_key(text, ids) ==
    LET at == {k \in 1..Len(text) : text[k] \in ids}
    IN  IF at = {} THEN NoMatch ELSE text[CHOOSE k \in at : \A o \in at : k <= o]

\* the first pattern of the list that matches
first_match(found) ==
    LET hits == {n \in 1..Len(found) : found[n] # NoMatch}
    IN  IF hits = {} THEN NoMatch ELSE found[CHOOSE n \in hits : \A o \in hits : n <= o]

\* a pattern list that takes the first number of the text, keyword or not
IssueNumberAnywhere(client, text) ==
    re_search_key(text, IF client = "jira" THEN TicketKeys ELSE Digits)

\* the loop "for pattern in patterns" of extract_issue_id_from_pr
issue_number(client, text) ==
    CASE client = "github" ->
            first_match(<<
                re_search(text, KeywordTokens(client), {" "}, {"#"}, FALSE, Digits),
                re_search(text, KeywordTokens(client), {" "}, {GithubIssuesUrl}, FALSE, Digits)>>)
      [] client = "trac" ->
            first_match(<<
                re_search(text, KeywordTokens(client), {" "}, {"#"}, FALSE, Digits),
                re_search(text, {"ticket"}, {" ", "-"}, {"#"}, TRUE, Digits),
                re_search(text, {TracTicketUrl}, {}, {}, TRUE, Digits)>>)
      [] client = "jira" ->
            upper(first_match(<<
                re_search(text, {JiraBrowseUrl}, {}, {}, TRUE, TicketKeys),
                re_search(text, KeywordTokens(client), {" "}, {}, TRUE, TicketKeys),
                re_search_key(text, TicketKeys)>>))

\* what the tracker answers to the request of one issue
Responses == {"ok", "http_error", "connection_error", "bad_body"}

\* the request or the reading of its answer raises: a failed connection, an
\* error status (raise_for_status), a body without the fields read; the Trac
\* client reads any HTML page
request_raises(client, response) ==
    \/ response \in {"http_error", "connection_error"}
    \/ response = "bad_body" /\ client # "trac"

NoIssue == "<none>"

\* a request whose exception is not caught
FetchUncaught(client, issue_id, response) ==
    IF request_raises(client, response)
    THEN [looked_up |-> <<issue_id>>, result |-> NoIssue, raised |-> TRUE]
    ELSE [looked_up |-> <<issue_id>>, result |-> issue_id, raised |-> FALSE]

\* try: session.get(url) ... return IssueInfo(id=...) except Exception: return None
\* (the tracker answers with the issue that was asked for)
fetch(client, issue_id, response) ==
    IF request_raises(client, response)
    THEN [looked_up |-> <<issue_id>>, result |-> NoIssue, raised |-> FALSE]
    ELSE [looked_up |-> <<issue_id>>, result |-> issue_id, raised |-> FALSE]

NothingLookedUp == [looked_up |-> <<>>, result |-> NoIssue, raised |-> FALSE]

\* str.lstrip("#")
lstrip_hash(issue_id) == IF issue_id = "#123" THEN "123" ELSE issue_id

\* get_issue of the three clients; url_ok: config.url names a GitHub repository
get_issue(client, url_ok, issue_id, response) ==
    CASE client = "github" ->
            IF ~url_ok THEN NothingLookedUp ELSE fetch(client, issue_id, response)
      [] client = "trac" -> fetch(client, lstrip_hash(issue_id), response)
      [] client = "jira" -> fetch(client, issue_id, response)

\* extract_issue_id_from_pr of the three clients
extract_issue_id_from_pr(client, url_ok, pr_body, response) ==
    IF pr_body = <<>> THEN NothingLookedUp
    ELSE IF client = "github" /\ ~url_ok THEN NothingLookedUp
    ELSE IF issue_number(client, pr_body) = NoMatch THEN NothingLookedUp
    ELSE IF client = "github" THEN fetch(client, issue_number(client, pr_body), response)
    ELSE get_issue(client, url_ok, issue_number(client, pr_body), response)

IssueIds(client) ==
    CASE client = "github" -> {"123", "7"}
      [] client = "trac" -> {"123", "#123"}
      [] client = "jira" -> {"PROJ-123"}

NoTrackerCall == [client |-> "github", op |-> "none", url_ok |-> TRUE,
                  pr_body |-> <<>>, issue_id |-> "", response |-> "ok",
                  done |-> FALSE, looked_up |-> <<>>, result |-> NoIssue,
                  raised |-> FALSE]

\* the texts of each client
TextsOf == [c \in Clients |-> Texts(c)]

ExtractIssueIdFromPr ==
    /\ ~trackerCall.done
    /\ trackerCall.op = "extract_issue_id_from_pr"
    /\ LET out == extract_issue_id_from_pr(trackerCall.client, trackerCall.url_ok,
                                           trackerCall.pr_body, trackerCall.response)
       IN  trackerCall' = [trackerCall EXCEPT !.done = TRUE,
                                              !.looked_up = out.looked_up,
                                              !.result = out.result,
                                              !.raised = out.raised]
    /\ UNCHANGED <<scan, matchCall, selCall, diffCall, prompt, genCall>>
    /\ UNCHANGED ledgerVars
    /\ UNCHANGED gitVars
    /\ UNCHANGED runVars

GetIssue ==
    /\ ~trackerCall.done
    /\ trackerCall.op = "get_issue"
    /\ LET out == get_issue(trackerCall.client, trackerCall.url_ok,
                            trackerCall.issue_id, trackerCall.response)
       IN  trackerCall' = [trackerCall EXCEPT !.done = TRUE,
                                              !.looked_up = out.looked_up,
                                              !.result = out.result,
                                              !.raised = out.raised]
    /\ UNCHANGED <<scan, matchCall, selCall, diffCall, prompt, genCall>>
    /\ UNCHANGED ledgerVars
    /\ UNCHANGED gitVars
    /\ UNCHANGED runVars

NextTracker == ExtractIssueIdFromPr \/ GetIssue

----------------------------------------------------------------------------
(* Attempt extraction (agent_clients/claude_client.py, abstract_agent.py) *)

\* the harness's own files in the workspace
SdkConfig == ".sdk-config.json"
AgentFile == "CLAUDE.md"
HarnessFiles == {SdkConfig, AgentFile}

\* the files of the workspace: tracked ones, new ones at the top level, in a
\* tracked directory and in a new directory, one matched by .gitignore
WsPaths == {"a.py", "pkg/old.py", "pkg/new.py", "top.py", "newpkg/mod.py",
            "build.log", SdkConfig, AgentFile}
WsIgnored == {"build.log"}
NoWorkspace == [p \in WsPaths |-> Absent]

\* the base commit checked out before the attempt
BaseTree == [NoWorkspace EXCEPT !["a.py"] = "x=1\n", !["pkg/old.py"] = "x=1\n"]
WsTracked == {p \in WsPaths : BaseTree[p] # Absent}

\* the directory of a path, "" for the top level
DirOf(p) ==
    CASE p \in {"pkg/old.py", "pkg/new.py"} -> "pkg/"
      [] p = "newpkg/mod.py" -> "newpkg/"
      [] OTHER -> ""
WsDirs == {DirOf(p) : p \in WsPaths} \ {""}

\* the paths the agent may write or delete: every file but pkg/old.py and the
\* SDK configuration; the context file only where the harness put one
AgentWritable == {"a.py", "pkg/new.py", "top.py", "newpkg/mod.py", "build.log"}
AgentContents == {Absent, "x=1\n", "x=2\n"}
AgentWorkspaces(w) ==
    {v \in [WsPaths -> AgentContents \cup {"cfg"}] :
        /\ \A p \in WsPaths \ (AgentWritable \cup {AgentFile}) : v[p] = w[p]
        /\ \A p \in AgentWritable : v[p] \in AgentContents
        /\ v[AgentFile] \in (IF w[AgentFile] = Absent THEN {Absent}
                             ELSE {w[AgentFile], "x=2\n"})}

\* lines 309-311, 350-356: the SDK configuration is written and the agent
\* context file copied into the workspace
with_harness_files(w, md_exists) ==
    [w EXCEPT ![SdkConfig] = "cfg",
              ![AgentFile] = IF md_exists THEN "x=1\n" ELSE w[AgentFile]]

\* the finally blocks: config_file.unlink(missing_ok=True), and the context
\* file moved back to the learning directory if it was copied and still exists
without_harness_files(w, md_exists) ==
    [w EXCEPT ![SdkConfig] = Absent,
              ![AgentFile] = IF md_exists THEN Absent ELSE w[AgentFile]]

\* a directory exists when it holds a file
dir_exists(w, d) == \E p \in WsPaths : DirOf(p) = d /\ w[p] # Absent
\* a directory none of whose files git tracks
untracked_dir(d) == d # "" /\ \A p \in WsTracked : DirOf(p) # d

\* git status --porcelain: the path of every line.  A tracked file that was
\* modified or deleted is listed by its path, an untracked file that is not
\* ignored by its path, unless its directory holds no tracked file: then the
\* directory is listed, once, with a trailing '/', and not its files
git_status(w) ==
    {p \in WsTracked : w[p] # BaseTree[p]}
    \cup {p \in WsPaths \ (WsTracked \cup WsIgnored) :
             w[p] # Absent /\ ~untracked_dir(DirOf(p))}
    \cup {d \in WsDirs :
             /\ untracked_dir(d)
             /\ \E p \in WsPaths \ WsIgnored : DirOf(p) = d /\ w[p] # Absent}

\* _detect_changed_files: the paths of git status, [] when git fails
_detect_changed_files(w, status_ok) == IF status_ok THEN git_status(w) ELSE {}

\* how the agent run ends: return code 0, another return code, the timeout
\* of subprocess.run
RunOutcomes == {"ok", "nonzero", "timeout"}

NoGenCall == [pc |-> "idle", md_exists |-> FALSE, ws |-> BaseTree,
              ws_run |-> BaseTree, outcome |-> "ok", status_ok |-> TRUE,
              detected |-> {}, files |-> NoWorkspace, raised |-> FALSE,
              error |-> "none"]

\* generate_solution from the return of the agent run on: the finally blocks,
\* the return code, the detection and the reading of the changed files
generate_solution(c, run, outcome, status_ok) ==
    LET w == without_harness_files(run, c.md_exists)
        changed == _detect_changed_files(w, status_ok)
        done == [c EXCEPT !.ws = w, !.ws_run = run, !.outcome = outcome,
                          !.status_ok = status_ok]
    IN  IF outcome = "timeout"
        THEN [done EXCEPT !.pc = "raised", !.raised = TRUE,
                          !.error = "TimeoutExpired"]
        ELSE IF outcome = "nonzero"
        THEN [done EXCEPT !.pc = "raised", !.raised = TRUE,
                          !.error = "RuntimeError"]
        ELSE IF \E d \in changed \cap WsDirs : dir_exists(w, d)
        THEN [done EXCEPT !.pc = "raised", !.raised = TRUE,
                          !.detected = changed,
                          !.error = "IsADirectoryError"]
        ELSE [done EXCEPT !.pc = "returned",
                          !.detected = changed,
                          !.files = [p \in WsPaths |->
                                        IF p \in changed THEN w[p] ELSE Absent]]

\* lines 350-365: the harness files are put into the workspace and the agent
\* is started
GenerateSolutionStart ==
    /\ genCall.pc = "idle"
    /\ genCall' = [genCall EXCEPT
                     !.pc = "running",
                     !.ws = with_harness_files(genCall.ws, genCall.md_exists)]
    /\ UNCHANGED <<scan, matchCall, selCall, diffCall, trackerCall, prompt>>
    /\ UNCHANGED ledgerVars
    /\ UNCHANGED gitVars
    /\ UNCHANGED runVars

\* lines 316-326, 366-388: the agent has edited the workspace and its run ends
GenerateSolutionFinish ==
    /\ genCall.pc = "running"
    /\ \E run \in AgentWorkspaces(genCall.ws), outcome \in RunOutcomes,
          status_ok \in BOOLEAN :
          genCall' = generate_solution(genCall, run, outcome, status_ok)
    /\ UNCHANGED <<scan, matchCall, selCall, diffCall, trackerCall, prompt>>
    /\ UNCHANGED ledgerVars
    /\ UNCHANGED gitVars
    /\ UNCHANGED runVars

NextAgent == GenerateSolutionStart \/ GenerateSolutionFinish

----------------------------------------------------------------------------
(* Specifications *)

\* the orchestrator: run after run on one learning directory
Init ==
    /\ ledgerFile \in {f \in LedgerFiles :
                        f.kind \in {"missing", "invalid_json", "not_object"}}
    /\ now = 1
    /\ call = NoCall
    /\ marked = {}
    /\ localCopy \in BOOLEAN
    /\ repo = "none"
    /\ head = IF localCopy THEN DefaultHead ELSE "none"
    /\ index = IF localCopy THEN TreePaths(DefaultHead) ELSE {}
    /\ wc = IF localCopy THEN Tree(DefaultHead) ELSE NoFiles
    /\ gitCall = NoGitCall
    /\ solution = NoFiles
    /\ max_attempts_per_pr \in 0..MaxAttempts
    /\ agentMd \in BOOLEAN
    /\ pc = "idle"
    /\ raised = FALSE
    /\ runNo = 0
    /\ specific_pr = 0
    /\ max_iterations = 1
    /\ analyzed_prs = {}
    /\ skipped = {}
    /\ prs = <<>>
    /\ idx = 0
    /\ session = NoSession
    /\ claude_solution = NoFiles
    /\ current_run = NewRun
    /\ steps = <<>>
    /\ savedThisRun = {}
    /\ savedPrevRun = {}
    /\ repeated = FALSE
    /\ scan = NoScan
    /\ diffCall = NoDiffCall
    /\ trackerCall = NoTrackerCall
    /\ prompt = NoPrompt
    /\ genCall = NoGenCall
    /\ matchCall = NoMatchCall
    /\ selCall = NoSelCall

Next ==
    \/ StartRun
    \/ SetupRepository
    \/ ResearchPhase
    \/ SelectSpecificPr
    \/ SelectPrs
    \/ BeginPr
    \/ TimeTravel
    \/ GenerateSolution
    \/ GetDeveloperSolution
    \/ AnalyzeAndLearn
    \/ SaveAnalyzed
    \/ EndPr
    \/ FinalizeRun

Spec == Init /\ [][Next]_vars

\* the ledger alone: loads and saves in any order, from any ledger file
InitLedger ==
    /\ ledgerFile \in LedgerFiles
    /\ now = 1
    /\ call = NoCall
    /\ marked = {}
    /\ localCopy = FALSE
    /\ repo = "none"
    /\ head = "none"
    /\ index = {}
    /\ wc = NoFiles
    /\ gitCall = NoGitCall
    /\ solution = NoFiles
    /\ max_attempts_per_pr = 0
    /\ agentMd = FALSE
    /\ pc = "idle"
    /\ raised = FALSE
    /\ runNo = 0
    /\ specific_pr = 0
    /\ max_iterations = 1
    /\ analyzed_prs = {}
    /\ skipped = {}
    /\ prs = <<>>
    /\ idx = 0
    /\ session = NoSession
    /\ claude_solution = NoFiles
    /\ current_run = NewRun
    /\ steps = <<>>
    /\ savedThisRun = {}
    /\ savedPrevRun = {}
    /\ repeated = FALSE
    /\ scan = NoScan
    /\ diffCall = NoDiffCall
    /\ trackerCall = NoTrackerCall
    /\ prompt = NoPrompt
    /\ genCall = NoGenCall
    /\ matchCall = NoMatchCall
    /\ selCall = NoSelCall

SpecLedger == InitLedger /\ [][NextLedger]_vars

\* the Snapshot Manager alone: its calls in any order, with an agent editing
\* the working copy in between
InitGit ==
    /\ ledgerFile = MissingFile
    /\ now = 1
    /\ call = NoCall
    /\ marked = {}
    /\ localCopy \in BOOLEAN
    /\ repo = "none"
    /\ head = IF localCopy THEN DefaultHead ELSE "none"
    /\ index = IF localCopy THEN TreePaths(DefaultHead) ELSE {}
    /\ wc = IF localCopy THEN Tree(DefaultHead) ELSE NoFiles
    /\ gitCall = NoGitCall
    /\ solution = NoFiles
    /\ max_attempts_per_pr = 0
    /\ agentMd = FALSE
    /\ pc = "idle"
    /\ raised = FALSE
    /\ runNo = 0
    /\ specific_pr = 0
    /\ max_iterations = 1
    /\ analyzed_prs = {}
    /\ skipped = {}
    /\ prs = <<>>
    /\ idx = 0
    /\ session = NoSession
    /\ claude_solution = NoFiles
    /\ current_run = NewRun
    /\ steps = <<>>
    /\ savedThisRun = {}
    /\ savedPrevRun = {}
    /\ repeated = FALSE
    /\ scan = NoScan
    /\ diffCall = NoDiffCall
    /\ trackerCall = NoTrackerCall
    /\ prompt = NoPrompt
    /\ genCall = NoGenCall
    /\ matchCall = NoMatchCall
    /\ selCall = NoSelCall

SpecGit == InitGit /\ [][NextGit]_vars

\* the PR Catalog alone: one scan of get_merged_prs on any host and criteria;
\* every request returns or times out, so the scan always takes its next step
InitCatalog ==
    /\ ledgerFile = MissingFile
    /\ now = 1
    /\ call = NoCall
    /\ marked = {}
    /\ localCopy = FALSE
    /\ repo = "none"
    /\ head = IF localCopy THEN DefaultHead ELSE "none"
    /\ index = IF localCopy THEN TreePaths(DefaultHead) ELSE {}
    /\ wc = IF localCopy THEN Tree(DefaultHead) ELSE NoFiles
    /\ gitCall = NoGitCall
    /\ solution = NoFiles
    /\ max_attempts_per_pr = 0
    /\ agentMd = FALSE
    /\ pc = "idle"
    /\ raised = FALSE
    /\ runNo = 0
    /\ specific_pr = 0
    /\ max_iterations = 1
    /\ analyzed_prs = {}
    /\ skipped = {}
    /\ prs = <<>>
    /\ idx = 0
    /\ session = NoSession
    /\ claude_solution = NoFiles
    /\ current_run = NewRun
    /\ steps = <<>>
    /\ savedThisRun = {}
    /\ savedPrevRun = {}
    /\ repeated = FALSE
    /\ scan \in {[NoScan EXCEPT !.pages = pp, !.criteria = c] :
                    pp \in HostPages, c \in ScanCriteria}
    /\ diffCall = NoDiffCall
    /\ trackerCall = NoTrackerCall
    /\ prompt = NoPrompt
    /\ genCall = NoGenCall
    /\ matchCall = NoMatchCall
    /\ selCall = NoSelCall

SpecCatalog == InitCatalog /\ [][NextCatalog]_vars /\ WF_vars(NextCatalog)

\* _matches_criteria alone: one call on any PR and any criteria
InitCriteria ==
    /\ ledgerFile = MissingFile
    /\ now = 1
    /\ call = NoCall
    /\ marked = {}
    /\ localCopy = FALSE
    /\ repo = "none"
    /\ head = IF localCopy THEN DefaultHead ELSE "none"
    /\ index = IF localCopy THEN TreePaths(DefaultHead) ELSE {}
    /\ wc = IF localCopy THEN Tree(DefaultHead) ELSE NoFiles
    /\ gitCall = NoGitCall
    /\ solution = NoFiles
    /\ max_attempts_per_pr = 0
    /\ agentMd = FALSE
    /\ pc = "idle"
    /\ raised = FALSE
    /\ runNo = 0
    /\ specific_pr = 0
    /\ max_iterations = 1
    /\ analyzed_prs = {}
    /\ skipped = {}
    /\ prs = <<>>
    /\ idx = 0
    /\ session = NoSession
    /\ claude_solution = NoFiles
    /\ current_run = NewRun
    /\ steps = <<>>
    /\ savedThisRun = {}
    /\ savedPrevRun = {}
    /\ repeated = FALSE
    /\ scan = NoScan
    /\ diffCall = NoDiffCall
    /\ trackerCall = NoTrackerCall
    /\ prompt = NoPrompt
    /\ genCall = NoGenCall
    /\ matchCall \in
        {[NoMatchCall EXCEPT
            !.pr_info = [linked_issue |-> l, files_changed |-> FileList(k),
                         labels |-> ls],
            !.criteria = [has_linked_issue |-> h, min_files_changed |-> lo,
                          max_files_changed |-> hi, exclude_labels |-> ex,
                          include_labels |-> inc]] :
            l \in BOOLEAN, k \in 0..MaxFiles, ls \in SUBSET Labels,
            h \in BOOLEAN, lo \in 0..MaxFiles, hi \in 0..MaxFiles,
            ex \in SUBSET Labels, inc \in SUBSET Labels}
    /\ selCall = NoSelCall

SpecCriteria == InitCriteria /\ [][NextCriteria]_vars

\* _select_prs alone: one call on any ledger, host list and limit
InitSelect ==
    /\ ledgerFile \in {f \in LedgerFiles :
                        /\ f.kind \in {"missing", "not_object", "ok"}
                        /\ Range(f.analyzed_prs) \subseteq {1, 2}}
    /\ now = 1
    /\ call = NoCall
    /\ marked = {}
    /\ localCopy = FALSE
    /\ repo = "none"
    /\ head = IF localCopy THEN DefaultHead ELSE "none"
    /\ index = IF localCopy THEN TreePaths(DefaultHead) ELSE {}
    /\ wc = IF localCopy THEN Tree(DefaultHead) ELSE NoFiles
    /\ gitCall = NoGitCall
    /\ solution = NoFiles
    /\ max_attempts_per_pr = 0
    /\ agentMd = FALSE
    /\ pc = "idle"
    /\ raised = FALSE
    /\ runNo = 0
    /\ specific_pr = 0
    /\ max_iterations = 1
    /\ analyzed_prs = {}
    /\ skipped = {}
    /\ prs = <<>>
    /\ idx = 0
    /\ session = NoSession
    /\ claude_solution = NoFiles
    /\ current_run = NewRun
    /\ steps = <<>>
    /\ savedThisRun = {}
    /\ savedPrevRun = {}
    /\ repeated = FALSE
    /\ scan = NoScan
    /\ diffCall = NoDiffCall
    /\ trackerCall = NoTrackerCall
    /\ prompt = NoPrompt
    /\ genCall = NoGenCall
    /\ matchCall = NoMatchCall
    /\ selCall \in
        {[NoSelCall EXCEPT
            !.limit = limit, !.host = host,
            !.criteria = [DefaultCriteria EXCEPT !.has_linked_issue = h]] :
            limit \in 1..MaxLimit, host \in CatalogHosts, h \in BOOLEAN}

SpecSelect == InitSelect /\ [][NextSelect]_vars

\* one comparison of two Solutions
InitDiff ==
    /\ ledgerFile = MissingFile
    /\ now = 1
    /\ call = NoCall
    /\ marked = {}
    /\ localCopy = FALSE
    /\ repo = "none"
    /\ head = IF localCopy THEN DefaultHead ELSE "none"
    /\ index = IF localCopy THEN TreePaths(DefaultHead) ELSE {}
    /\ wc = IF localCopy THEN Tree(DefaultHead) ELSE NoFiles
    /\ gitCall = NoGitCall
    /\ solution = NoFiles
    /\ max_attempts_per_pr = 0
    /\ agentMd = FALSE
    /\ pc = "idle"
    /\ raised = FALSE
    /\ runNo = 0
    /\ specific_pr = 0
    /\ max_iterations = 1
    /\ analyzed_prs = {}
    /\ skipped = {}
    /\ prs = <<>>
    /\ idx = 0
    /\ session = NoSession
    /\ claude_solution = NoFiles
    /\ current_run = NewRun
    /\ steps = <<>>
    /\ savedThisRun = {}
    /\ savedPrevRun = {}
    /\ repeated = FALSE
    /\ scan = NoScan
    /\ diffCall \in
        {[NoDiffCall EXCEPT !.developer_solution = d, !.agent_solution = a] :
            d \in SolutionFiles, a \in SolutionFiles}
    /\ trackerCall = NoTrackerCall
    /\ prompt = NoPrompt
    /\ genCall = NoGenCall
    /\ matchCall = NoMatchCall
    /\ selCall = NoSelCall

SpecDiff == InitDiff /\ [][NextDiff]_vars

\* one call of an issue-tracker client
InitTracker ==
    /\ ledgerFile = MissingFile
    /\ now = 1
    /\ call = NoCall
    /\ marked = {}
    /\ localCopy = FALSE
    /\ repo = "none"
    /\ head = IF localCopy THEN DefaultHead ELSE "none"
    /\ index = IF localCopy THEN TreePaths(DefaultHead) ELSE {}
    /\ wc = IF localCopy THEN Tree(DefaultHead) ELSE NoFiles
    /\ gitCall = NoGitCall
    /\ solution = NoFiles
    /\ max_attempts_per_pr = 0
    /\ agentMd = FALSE
    /\ pc = "idle"
    /\ raised = FALSE
    /\ runNo = 0
    /\ specific_pr = 0
    /\ max_iterations = 1
    /\ analyzed_prs = {}
    /\ skipped = {}
    /\ prs = <<>>
    /\ idx = 0
    /\ session = NoSession
    /\ claude_solution = NoFiles
    /\ current_run = NewRun
    /\ steps = <<>>
    /\ savedThisRun = {}
    /\ savedPrevRun = {}
    /\ repeated = FALSE
    /\ scan = NoScan
    /\ diffCall = NoDiffCall
    /\ \E c \in Clients, u \in BOOLEAN, r \in Responses :
        \/ \E t \in TextsOf[c] :
              trackerCall = [NoTrackerCall EXCEPT
                               !.client = c, !.op = "extract_issue_id_from_pr",
                               !.url_ok = u, !.pr_body = t, !.response = r]
        \/ \E i \in IssueIds(c) :
              trackerCall = [NoTrackerCall EXCEPT
                               !.client = c, !.op = "get_issue",
                               !.url_ok = u, !.issue_id = i, !.response = r]
    /\ prompt = NoPrompt
    /\ genCall = NoGenCall
    /\ matchCall = NoMatchCall
    /\ selCall = NoSelCall

SpecTracker == InitTracker /\ [][NextTracker]_vars

\* one call of generate_solution on a workspace at the base commit
InitAgent ==
    /\ ledgerFile = MissingFile
    /\ now = 1
    /\ call = NoCall
    /\ marked = {}
    /\ localCopy = FALSE
    /\ repo = "none"
    /\ head = IF localCopy THEN DefaultHead ELSE "none"
    /\ index = IF localCopy THEN TreePaths(DefaultHead) ELSE {}
    /\ wc = IF localCopy THEN Tree(DefaultHead) ELSE NoFiles
    /\ gitCall = NoGitCall
    /\ solution = NoFiles
    /\ max_attempts_per_pr = 0
    /\ agentMd = FALSE
    /\ pc = "idle"
    /\ raised = FALSE
    /\ runNo = 0
    /\ specific_pr = 0
    /\ max_iterations = 1
    /\ analyzed_prs = {}
    /\ skipped = {}
    /\ prs = <<>>
    /\ idx = 0
    /\ session = NoSession
    /\ claude_solution = NoFiles
    /\ current_run = NewRun
    /\ steps = <<>>
    /\ savedThisRun = {}
    /\ savedPrevRun = {}
    /\ repeated = FALSE
    /\ scan = NoScan
    /\ diffCall = NoDiffCall
    /\ trackerCall = NoTrackerCall
    /\ prompt = NoPrompt
    /\ genCall \in {[NoGenCall EXCEPT !.md_exists = m] : m \in BOOLEAN}
    /\ matchCall = NoMatchCall
    /\ selCall = NoSelCall

SpecAgent == InitAgent /\ [][NextAgent]_vars

----------------------------------------------------------------------------
(* Properties *)

Ascending(s) == \A i, j \in 1..Len(s) : i < j => s[i] < s[j]

AttemptPcs == Range(ProcessPrSteps)

\* a step of _process_pr returned and was the ledger write
SaveCompletes ==
    /\ Len(steps') = Len(steps) + 1
    /\ steps'[Len(steps')] = "save"

\* C1: in a run that selects with _select_prs, no PR number that
\* _save_analyzed_pr recorded during the run before it is in the selected
\* list, whatever the host returned and however the list was shuffled.
C1_IdempotentSelection ==
    specific_pr = 0 => Range(prs) \cap savedPrevRun = {}

\* a second run selected PRs, and the host had offered it one the first run
\* recorded
C1_Witness ==
    /\ specific_pr = 0
    /\ prs # <<>>
    /\ savedPrevRun \cap skipped # {}

\* C2: the ledger is written only by the save that follows the completed
\* checkout of the base commit, clean, agent attempt, ground-truth extraction
\* and analysis of that PR, and a step that raises leaves the ledger as it was.
C2_LedgerWrittenLast ==
    /\ [][(ledgerFile' # ledgerFile \/ SaveCompletes) =>
            /\ pc = "save"
            /\ ~raised'
            /\ steps = <<"checkout_before", "clean", "agent", "checkout_after",
                         "extract", "analyze">>
            /\ ledgerFile' = _save_analyzed_pr(ledgerFile, session.pr, now)]_vars
    /\ [][(raised' /\ ~raised) => ledgerFile' = ledgerFile]_vars

\* the analysis of a PR raised in a run that had already recorded another PR,
\* and the ledger does not hold the failed PR
C2_Witness ==
    /\ raised
    /\ pc = "analyze"
    /\ savedThisRun # {}
    /\ session.pr \notin _load_analyzed_prs(ledgerFile).set

C4_FailedPrReported == ~(raised /\ pc \in AttemptPcs)

\* C5: the processing of a PR is given up only after max_attempts_per_pr
\* attempts have been made, and never makes more.
C5_RetriedUntilBound ==
    /\ session.attempts <= max_attempts_per_pr
    /\ (raised /\ pc \in AttemptPcs) => session.attempts >= max_attempts_per_pr

\* C6: every id for which _save_analyzed_pr returned is in the set that
\* _load_analyzed_prs returns from then on, and no call removes an id from
\* the set the ledger loads to.
C6_LedgerMonotone ==
    /\ [](marked # {} => /\ ~_load_analyzed_prs(ledgerFile).raised
                         /\ marked \subseteq _load_analyzed_prs(ledgerFile).set)
    /\ [][~_load_analyzed_prs(ledgerFile).raised =>
            /\ ~_load_analyzed_prs(ledgerFile').raised
            /\ _load_analyzed_prs(ledgerFile).set
                 \subseteq _load_analyzed_prs(ledgerFile').set]_vars

\* a save added a new id to a ledger that held others
C6_Witness ==
    /\ call.op = "save"
    /\ ~call.raised
    /\ call.before.kind = "ok"
    /\ call.before.analyzed_prs # <<>>
    /\ call.arg \notin Range(call.before.analyzed_prs)
    /\ Range(call.before.analyzed_prs) \cup {call.arg}
         = _load_analyzed_prs(ledgerFile).set

\* C7: a second _save_analyzed_pr(x) right after the first leaves the
\* analyzed_prs array as the first wrote it: ascending, without a duplicate.
C7_SaveIdempotent ==
    [][(/\ call.op = "save" /\ ~call.raised
        /\ call'.op = "save" /\ call'.arg = call.arg) =>
            /\ ledgerFile'.analyzed_prs = ledgerFile.analyzed_prs
            /\ Ascending(ledgerFile'.analyzed_prs)]_vars

\* a save of an id the ledger already held rewrote it with a later
\* last_updated
C7_Witness ==
    /\ call.op = "save"
    /\ ~call.raised
    /\ call.before.kind = "ok"
    /\ call.arg \in Range(call.before.analyzed_prs)
    /\ call.before.last_updated # 0
    /\ ledgerFile.last_updated # call.before.last_updated
    /\ ledgerFile.analyzed_prs = call.before.analyzed_prs

\* C8: on a ledger file that is missing or malformed _load_analyzed_prs
\* returns the empty set and does not raise.
C8_MalformedLedgerIsEmpty ==
    (call.op = "load" /\ call.before.kind # "ok") =>
        (~call.raised /\ call.set = {})

\* the Solution the claim describes: the added or modified paths of the PR
\* that exist at its merge commit, with their content at that commit
GroundTruth(n) ==
    [p \in Paths |->
        IF \E i \in 1..Len(PRInfo(n).files_changed) :
              /\ PRInfo(n).files_changed[i].filename = p
              /\ PRInfo(n).files_changed[i].status \in {"added", "modified"}
        THEN Tree(PRInfo(n).merge_commit_sha)[p]
        ELSE Absent]

\* C9: the Solution get_pr_solution returns maps exactly the added or
\* modified paths that exist at the merge commit to their content at that
\* commit, whatever the working copy held before the call.
C9_GroundTruthAtMergeCommit ==
    (gitCall.op = "get_pr_solution" /\ ~gitCall.raised) =>
        solution = GroundTruth(gitCall.pr)

CheckoutOps == {"checkout_before_pr", "checkout_after_pr"}
CheckoutTarget(c) ==
    IF c.op = "checkout_before_pr" THEN PRInfo(c.pr).base_commit_sha
    ELSE PRInfo(c.pr).merge_commit_sha

\* C11: right after a checkout of commit C returned, for every path p of C,
\* get_file_content(p, None) and get_file_content(p, C) return the same text.
C11_CheckoutDeterminism ==
    (gitCall.op \in CheckoutOps /\ ~gitCall.raised) =>
        \A p \in TreePaths(head) :
            get_file_content(wc, p, "none") = get_file_content(wc, p, head)

\* C12: a checkout that raises leaves the checked-out commit, the index and
\* every file of the working copy as they were; a checkout that returns
\* leaves the target commit checked out with every path of it at its
\* committed content; a Ready manager always has one commit checked out.
C12_CheckoutAtomic ==
    /\ [](repo = "ready" => head \in Commits)
    /\ [][gitCall'.op \in CheckoutOps =>
            IF gitCall'.raised
            THEN head' = head /\ index' = index /\ wc' = wc
            ELSE /\ head' = CheckoutTarget(gitCall')
                 /\ index' = TreePaths(head')
                 /\ \A p \in TreePaths(head') : wc'[p] = Tree(head')[p]]_vars

\* a checkout of a commit that does not resolve raised on a Ready manager
\* whose working copy the agent had modified
C12_Witness ==
    /\ gitCall.op \in CheckoutOps
    /\ gitCall.raised
    /\ repo = "ready"
    /\ \E p \in TreePaths(head) : wc[p] # Tree(head)[p]

\* C13: _setup_repository on an existing local copy leaves the manager Ready
\* and the run at its next step whether or not the fetch failed; without a
\* local copy a failed clone raises with the manager Uninitialized, and the
\* run ends there: no PR selected, no session, the ledger as it was.
C13_CloneOrUpdateFailureModes ==
    /\ [][(pc = "setup" /\ ~raised /\ gitCall'.op = "clone_or_update") =>
            IF localCopy
            THEN /\ ~raised' /\ repo' = "ready" /\ pc' = "research"
                 /\ head' = head /\ wc' = wc
            ELSE IF gitCall'.result = "clone_failed"
            THEN /\ raised' /\ repo' = "none" /\ pc' = "setup"
                 /\ ledgerFile' = ledgerFile
            ELSE ~raised' /\ repo' = "ready" /\ pc' = "research"]_vars
    /\ []((pc = "setup" /\ raised) =>
            /\ repo = "none"
            /\ prs = <<>>
            /\ current_run.sessions = <<>>
            /\ savedThisRun = {})
    /\ [][(pc = "setup" /\ raised) =>
            (pc' = "setup" /\ ledgerFile' = ledgerFile /\ prs' = <<>>)]_vars

\* the fetch failed on an existing local copy and the run went on to its
\* research phase with a Ready manager
C13_Witness ==
    /\ pc = "research"
    /\ ~raised
    /\ gitCall.op = "clone_or_update"
    /\ gitCall.result = "fetch_failed"
    /\ repo = "ready"

\* the calls that need a repository
UninitOps == {"checkout_before_pr", "checkout_after_pr", "get_file_content", "clean"}

\* C14: on a manager whose repo is None, checkout_before_pr,
\* checkout_after_pr, get_file_content and clean raise and leave the manager,
\* the checked-out commit and the working copy as they were; only
\* clone_or_update makes the manager Ready.
C14_UninitializedRaises ==
    /\ [][(repo = "none" /\ gitCall'.op \in UninitOps) =>
            /\ gitCall'.raised
            /\ UNCHANGED <<localCopy, repo, head, index, wc, solution>>]_vars
    /\ [][(repo = "none" /\ repo' # "none") =>
            gitCall'.op = "clone_or_update"]_vars

\* a call raised on a manager that was never initialized although the local
\* copy exists on disk
C14_Witness ==
    /\ repo = "none"
    /\ localCopy
    /\ gitCall.op \in UninitOps
    /\ gitCall.raised

\* the path is not in the commit the read names, or not on disk when it
\* names none
PathMissing(w, file_path, commit) ==
    IF commit = "none" THEN w[file_path] = Absent
    ELSE commit \notin Commits \/ Tree(commit)[file_path] = Absent

\* C15: get_file_content, with or without a commit, leaves the checked-out
\* commit, the index and every file of the working copy as they were, and on
\* a Ready manager it returns None without raising for a path that is not in
\* the commit it names (not on disk when it names none).
C15_ReadOnlyRead ==
    [][gitCall'.op = "get_file_content" =>
        /\ UNCHANGED <<localCopy, repo, head, index, wc, solution>>
        /\ repo = "ready" =>
            /\ ~gitCall'.raised
            /\ PathMissing(wc, gitCall'.path, gitCall'.commit) =>
                gitCall'.result = Absent]_vars

\* a read at a commit returned None for a path the working copy holds but
\* the commit does not, and the working copy still holds it
C15_Witness ==
    /\ gitCall.op = "get_file_content"
    /\ ~gitCall.raised
    /\ gitCall.commit \in Commits
    /\ gitCall.commit # head
    /\ gitCall.result = Absent
    /\ wc[gitCall.path] \notin {Absent, ""}

\* C16: a clean() that follows a clean() that returned does not raise and
\* removes nothing: the working copy after the second call is the working
\* copy after the first.
C16_CleanIdempotent ==
    [][(/\ gitCall.op = "clean" /\ ~gitCall.raised
        /\ gitCall'.op = "clean" /\ gitCall'.prev = "clean") =>
            /\ ~gitCall'.raised
            /\ gitCall'.removed = {}
            /\ wc' = wc]_vars

\* clean() was called twice in a row on a checkout that holds an ignored
\* file and no other untracked file
C16_Witness ==
    /\ gitCall.op = "clean"
    /\ gitCall.prev = "clean"
    /\ ~gitCall.raised
    /\ \E p \in IgnoredPaths : wc[p] # Absent
    /\ \A p \in Paths \ IgnoredPaths : wc[p] = Tree(head)[p]

\* the position of a PR in the host's list
HostPos(n) == CHOOSE k \in 1..Len(Flatten(scan.pages)) : Flatten(scan.pages)[k] = n

\* C17: a scan of get_merged_prs that returns holds at most `limit` PRs, each
\* one matching the criteria, in the order of the host's list; it returned
\* because `limit` PRs were collected, because the host answered an empty
\* page (the page after its last), or because a page request failed; it
\* never asks for a page past the first empty one, and every scan ends.
C17_ScanBounded ==
    /\ [](scan.pc = "returned" =>
            /\ Len(scan.all_prs) <= scan.limit
            /\ \A k \in 1..Len(scan.all_prs) :
                  _matches_criteria(
                      _parse_pr(scan.all_prs[k], scan.all_prs[k] \notin scan.nofiles),
                      scan.criteria)
            /\ \A a, b \in 1..Len(scan.all_prs) :
                  a < b => HostPos(scan.all_prs[a]) < HostPos(scan.all_prs[b])
            /\ scan.stop \in {"limit", "empty_page", "request_failed"}
            /\ scan.stop = "limit" <=> Len(scan.all_prs) = scan.limit
            /\ scan.stop = "empty_page" => scan.page = Len(scan.pages) + 1
            /\ (scan.failed = {} /\ scan.stop # "request_failed") =>
                  scan.all_prs = get_merged_prs(Flatten(scan.pages), scan.criteria,
                                                scan.limit, TRUE))
    /\ [](scan.page <= Len(scan.pages) + 1)
    /\ <>(scan.pc \in {"returned", "raised"})

\* a scan returned with its limit reached while the host still listed a
\* matching PR it had not evaluated
C17_Witness ==
    /\ scan.pc = "returned"
    /\ scan.stop = "limit"
    /\ scan.limit >= 1
    /\ scan.failed = {}
    /\ \E n \in Range(Flatten(scan.pages)) \ Range(scan.all_prs) :
          _matches_criteria(PRInfo(n), scan.criteria)

\* C18: no failure on one PR ends the scan, and a PR whose details or file
\* list could not be fetched or parsed is not in the result.
C18_FailedPrSkipped ==
    /\ scan.pc # "raised"
    /\ scan.failed \cap Range(scan.all_prs) = {}

\* C19: _matches_criteria accepts a PR exactly when: has_linked_issue is
\* false or the PR has a linked issue; the number of its file changes is
\* between min_files_changed and max_files_changed, both included; none of
\* its labels is excluded; include_labels is empty or holds one of its labels.
C19_MatchesCriteria ==
    matchCall.done =>
        (matchCall.result <=>
            /\ (~matchCall.criteria.has_linked_issue \/ matchCall.pr_info.linked_issue)
            /\ matchCall.criteria.min_files_changed <= Len(matchCall.pr_info.files_changed)
            /\ Len(matchCall.pr_info.files_changed) <= matchCall.criteria.max_files_changed
            /\ matchCall.pr_info.labels \cap matchCall.criteria.exclude_labels = {}
            /\ \/ matchCall.criteria.include_labels = {}
               \/ matchCall.pr_info.labels \cap matchCall.criteria.include_labels # {})

\* a PR with exactly min_files_changed = 2 files was accepted under criteria
\* that also name excluded and included labels
C19_Witness ==
    /\ matchCall.done
    /\ matchCall.result
    /\ matchCall.criteria.min_files_changed = 2
    /\ Len(matchCall.pr_info.files_changed) = 2
    /\ matchCall.criteria.has_linked_issue
    /\ matchCall.criteria.exclude_labels # {}
    /\ matchCall.criteria.include_labels # {}

\* the PRs of the host's list that match the criteria, are not in the
\* Analyzed-Set and have a linked issue or one the tracker resolves
Supply(c) ==
    {n \in Range(c.host) :
        /\ _matches_criteria(PRInfo(n), c.criteria)
        /\ n \notin c.analyzed
        /\ (PRInfo(n).linked_issue \/ n \in c.resolved)}

\* the same among the PRs get_merged_prs fetches: the first
\* limit + |analyzed| + 10 of the list that match the criteria
SupplyFetched(c) ==
    Supply(c) \cap
    Range(Take(SelectSeq(c.host, LAMBDA n : _matches_criteria(PRInfo(n), c.criteria)),
               c.limit + Cardinality(c.analyzed) + Margin))

\* C20 as stated: _select_prs returns at most `limit` PRs, each with a
\* linked issue, and exactly `limit` whenever the host lists at least `limit`
\* matching PRs with a linked or resolvable issue outside the Analyzed-Set
\* and answers the request.
C20_BatchSize ==
    (selCall.done /\ ~selCall.raised) =>
        /\ Len(selCall.result) <= selCall.limit
        /\ \A k \in 1..Len(selCall.result) :
              PRInfo(selCall.result[k]).linked_issue
                \/ selCall.result[k] \in selCall.resolved
        /\ (selCall.requestOk /\ Cardinality(Supply(selCall)) >= selCall.limit) =>
              Len(selCall.result) = selCall.limit

\* C20 as amended: _select_prs returns at most `limit` PRs, each with a
\* linked issue and none in the Analyzed-Set, and exactly `limit` when the
\* request is answered and at least `limit` such PRs are among the first
\* limit + |analyzed| + 10 matching PRs of the host's list; that is so
\* whenever has_linked_issue is set and the host lists `limit` such PRs.
C20_BatchWithinFetch ==
    (selCall.done /\ ~selCall.raised) =>
        /\ Len(selCall.result) <= selCall.limit
        /\ \A k \in 1..Len(selCall.result) :
              /\ PRInfo(selCall.result[k]).linked_issue
                   \/ selCall.result[k] \in selCall.resolved
              /\ selCall.result[k] \notin selCall.analyzed
        /\ (selCall.requestOk
              /\ Cardinality(SupplyFetched(selCall)) >= selCall.limit) =>
              Len(selCall.result) = selCall.limit
        /\ (selCall.requestOk /\ selCall.criteria.has_linked_issue
              /\ Cardinality(Supply(selCall)) >= selCall.limit) =>
              Len(selCall.result) = selCall.limit

\* a full batch was returned although the first `limit` PRs of the host's
\* list were all in the Analyzed-Set
C20_Witness ==
    /\ selCall.done
    /\ ~selCall.raised
    /\ selCall.requestOk
    /\ selCall.limit = 2
    /\ Len(selCall.result) = selCall.limit
    /\ Len(selCall.host) > selCall.limit
    /\ \A k \in 1..selCall.limit : selCall.host[k] \in selCall.analyzed

\* C21: when run_improvement_cycle returns, total_prs is the number of
\* sessions, successful_prs is the number of sessions with success = true,
\* the sessions are those of the selected PRs, one each and in order, and
\* average_score is the mean of the sessions' best_score.
C21_StatsConsistent ==
    pc = "returned" =>
        /\ current_run.total_prs = Len(current_run.sessions)
        /\ current_run.successful_prs =
             Cardinality({k \in 1..Len(current_run.sessions) :
                            current_run.sessions[k].success})
        /\ current_run.successful_prs <= current_run.total_prs
        /\ Len(current_run.sessions) = Len(prs)
        /\ \A k \in 1..Len(prs) : current_run.sessions[k].pr = prs[k]
        /\ current_run.average_score * Len(current_run.sessions)
             = total_score(current_run.sessions)

\* a run returned with two sessions, no attempt having been made for them
C21_Witness ==
    /\ pc = "returned"
    /\ Len(current_run.sessions) = 2
    /\ current_run.successful_prs = 0
    /\ \A k \in 1..2 : current_run.sessions[k].attempts = 0

\* the filenames of the entries of a diff, in the order they are reported
EntryNames(result) == [n \in 1..Len(result) |-> result[n].filename]

\* C22 (diff identity): comparing a Solution with itself reports exactly one
\* entry per filename of the Solution, every entry as identical and none as
\* differing.
C22_DiffIdentity ==
    (diffCall.done /\ diffCall.developer_solution = diffCall.agent_solution) =>
        /\ Len(diffCall.result) = Cardinality(DOMAIN diffCall.developer_solution)
        /\ \A f \in DOMAIN diffCall.developer_solution :
              Cardinality({n \in 1..Len(diffCall.result) :
                              diffCall.result[n].filename = f}) = 1
        /\ \A n \in 1..Len(diffCall.result) :
              /\ diffCall.result[n].report = "identical"
              /\ diffCall.result[n].diff = <<>>

C22_Witness ==
    /\ diffCall.done
    /\ diffCall.developer_solution = diffCall.agent_solution
    /\ DOMAIN diffCall.developer_solution = {"a.py", "b.py"}
    /\ diffCall.developer_solution["a.py"] = <<"x=1\n", "x=2\n">>
    /\ diffCall.developer_solution["b.py"] = <<>>
    /\ Len(diffCall.result) = 2

\* C23 (diff completeness): for two Solutions with disjoint filename sets,
\* whatever the contents of their files, the diff reports exactly one entry
\* per filename of the union, in lexicographic filename order, every entry
\* marked as a difference and none as identical.
C23_DiffCompleteness ==
    (diffCall.done
        /\ DOMAIN diffCall.developer_solution \cap DOMAIN diffCall.agent_solution = {}) =>
        /\ Len(diffCall.result) = Cardinality(DOMAIN diffCall.developer_solution)
                                    + Cardinality(DOMAIN diffCall.agent_solution)
        /\ EntryNames(diffCall.result)
             = sorted_names(DOMAIN diffCall.developer_solution
                              \cup DOMAIN diffCall.agent_solution)
        /\ \A n \in 1..Len(diffCall.result) :
              /\ diffCall.result[n].report # "identical"
              /\ diffCall.result[n].diff # <<>>

\* the lines of a diff carrying one of the given prefixes, in order
DiffSide(diff, tags) ==
    LET kept == SelectSeq(diff, LAMBDA t : t.tag \in tags)
    IN  [n \in 1..Len(kept) |-> kept[n].line]

\* the filenames whose compared content differs (a file only one Solution has
\* is compared with the empty content, see C23)
DiffersIn(c) ==
    {f \in DOMAIN c.developer_solution \cup DOMAIN c.agent_solution :
        files_get(c.developer_solution, f) # files_get(c.agent_solution, f)}

\* C24 (diff orientation): a filename whose content differs is reported as
\* differing, never as identical, and its diff leads from the attempt to the
\* ground truth: the '-' lines with the context lines are the attempt's
\* content, the '+' lines with the context lines are the ground truth's, so a
\* line only the attempt has is a '-' line and a line only the ground truth
\* has is a '+' line.
C24_DiffOrientation ==
    diffCall.done =>
        \A n \in 1..Len(diffCall.result) :
            LET e == diffCall.result[n]
                attempt == files_get(diffCall.agent_solution, e.filename)
                truth == files_get(diffCall.developer_solution, e.filename)
            IN  e.filename \in DiffersIn(diffCall) =>
                    /\ e.report = "diff"
                    /\ DiffSide(e.diff, {"-", " "}) = attempt
                    /\ DiffSide(e.diff, {"+", " "}) = truth
                    /\ \A t \in Range(e.diff) :
                          /\ t.line \notin Range(truth) => t.tag = "-"
                          /\ t.line \notin Range(attempt) => t.tag = "+"

\* attempt {a.py: "x=1"} against ground truth {a.py: "x=2"}: -x=1 / +x=2
C24_Witness ==
    /\ diffCall.done
    /\ diffCall.agent_solution = [f \in {"a.py"} |-> <<"x=1\n">>]
    /\ diffCall.developer_solution = [f \in {"a.py"} |-> <<"x=2\n">>]
    /\ diffCall.result = <<[filename |-> "a.py", report |-> "diff",
                            diff |-> <<[tag |-> "-", line |-> "x=1\n"],
                                       [tag |-> "+", line |-> "x=2\n"]>>]>>

\* the keyword references of a text: a keyword of the client, whitespace, '#'
\* and digits, as <<position of the keyword, position of the digits>>
KeywordRefs(c) ==
    {r \in (1..Len(c.pr_body)) \X (1..Len(c.pr_body)) :
        /\ r[1] + 3 <= r[2]
        /\ lower(c.pr_body[r[1]]) \in Keywords(c.client)
        /\ \A m \in (r[1] + 1)..(r[2] - 2) : c.pr_body[m] = " "
        /\ c.pr_body[r[2] - 1] = "#"
        /\ c.pr_body[r[2]] \in Digits}

\* the places where a text could refer to an issue at all: a keyword, the
\* word "ticket" or a ticket URL, and after it, with nothing but whitespace,
\* '-', '#' or an issue URL in between, a number
LooseRefs(c) ==
    {r \in (1..Len(c.pr_body)) \X (1..Len(c.pr_body)) :
        /\ r[1] < r[2]
        /\ \/ lower(c.pr_body[r[1]]) \in Keywords(c.client)
           \/ c.client = "trac" /\ c.pr_body[r[1]] \in {"ticket", TracTicketUrl}
        /\ \A m \in (r[1] + 1)..(r[2] - 1) :
              c.pr_body[m] \in {" ", "-", "#", GithubIssuesUrl}
        /\ c.pr_body[r[2]] \in Digits}

\* the GitHub and Trac clients, set up with the URL of their tracker
ExtractCall(c) ==
    /\ c.done
    /\ c.op = "extract_issue_id_from_pr"
    /\ c.client \in {"github", "trac"}
    /\ c.client = "github" => c.url_ok

C26_LookupsNonThrowing ==
    trackerCall.done =>
        /\ ~trackerCall.raised
        /\ (trackerCall.looked_up # <<>>
              /\ trackerCall.response \in {"http_error", "connection_error"}) =>
              trackerCall.result = NoIssue
        /\ trackerCall.looked_up = <<>> => trackerCall.result = NoIssue

C26_Witness ==
    /\ trackerCall.done
    /\ trackerCall.client = "jira"
    /\ trackerCall.op = "extract_issue_id_from_pr"
    /\ trackerCall.pr_body = <<"Fixes", " ", "abc-7">>
    /\ trackerCall.response = "http_error"
    /\ trackerCall.looked_up = <<"ABC-7">>
    /\ trackerCall.result = NoIssue
    /\ ~trackerCall.raised

\* the steps of one learning cycle, in order
FullCycle ==
    <<"checkout_before", "clean", "agent", "checkout_after", "extract",
      "analyze", "save">>

IsPrefix(s, t) == Len(s) <= Len(t) /\ s = SubSeq(t, 1, Len(s))

\* C27 (cycle ordering): the steps a PR has completed are always an initial
\* part of checkout of the base commit, clean, agent attempt, checkout of the
\* merge commit, ground-truth extraction, analysis, ledger write, so a PR that
\* ends marked analyzed went through all of them in this order; steps are only
\* added one PR at a time and dropped only when a PR or a new run begins, and
\* the next PR starts only when the previous PR has finished its cycle (or
\* made no attempt at all).
C27_CycleOrdering ==
    /\ [](IsPrefix(steps, FullCycle))
    /\ [][SaveCompletes =>
            /\ steps' = FullCycle
            /\ session.pr = prs[idx]
            /\ idx' = idx]_vars
    /\ [][steps' # steps =>
            \/ steps' = <<>> /\ (pc = "begin" \/ pc' = "setup")
            \/ /\ IsPrefix(steps, steps')
               /\ idx' = idx
               /\ session'.pr = session.pr]_vars
    /\ [][(pc = "end" /\ pc' # "end") =>
            /\ steps \in {<<>>, FullCycle}
            /\ steps = FullCycle <=> session.pr \in savedThisRun
            /\ idx' = idx + 1]_vars
    /\ [][(pc' = "begin" /\ pc # "begin") => pc \in {"end", "select"}]_vars

\* the second PR of a run finished its cycle after the first one had
C27_Witness ==
    /\ pc = "end"
    /\ idx = 2
    /\ steps = FullCycle
    /\ Cardinality(savedThisRun) = 2

\* C28 (the diff report feeds the analysis): whenever the analysis step of a
\* cycle completes, the prompt handed to the analysis run holds the report
\* _create_solution_diff makes of the ground-truth Solution and the attempt
\* Solution of this PR.
C28_DiffHandedToAnalysis ==
    [][(Len(steps') = Len(steps) + 1 /\ steps'[Len(steps')] = "analyze") =>
            /\ prompt'.built
            /\ prompt'.has_diff
            /\ prompt'.diff = _create_solution_diff(solution_files(solution),
                                                    solution_files(claude_solution))]_vars

\* C29 (session/ledger agreement): a session is handed to the run with
\* success = true exactly when _save_analyzed_pr recorded its PR during that
\* session; the ledger is written only by the step that sets success; and in a
\* returned run the sessions with success = true are those whose PR this run
\* recorded, all of them in the ledger, so that with max_attempts_per_pr = 0
\* (no attempt, success = false) nothing is recorded at all.
C29_SessionLedgerAgreement ==
    /\ [][(pc = "end" /\ pc' # "end") =>
            /\ session.success <=> "save" \in Range(steps)
            /\ session.success <=> session.pr \in savedThisRun
            /\ current_run'.sessions = Append(current_run.sessions, session)]_vars
    /\ [][(ledgerFile' # ledgerFile \/ savedThisRun' \ savedThisRun # {}) =>
            /\ pc = "save"
            /\ session'.success
            /\ savedThisRun' \ savedThisRun \subseteq {session.pr}
            /\ session.pr \in _load_analyzed_prs(ledgerFile').set]_vars
    /\ [](pc = "returned" =>
            /\ \A k \in 1..Len(current_run.sessions) :
                  /\ current_run.sessions[k].success
                        <=> current_run.sessions[k].pr \in savedThisRun
                  /\ current_run.sessions[k].success
                        => current_run.sessions[k].pr \in _load_analyzed_prs(ledgerFile).set
            /\ savedThisRun \subseteq {current_run.sessions[k].pr :
                                         k \in 1..Len(current_run.sessions)}
            /\ max_attempts_per_pr = 0 => savedThisRun = {})

\* a returned run with two sessions, both successful and both recorded
C29_Witness ==
    /\ pc = "returned"
    /\ Len(current_run.sessions) = 2
    /\ \A k \in 1..2 : current_run.sessions[k].success
    /\ savedThisRun = {current_run.sessions[1].pr, current_run.sessions[2].pr}
    /\ Cardinality(savedThisRun) = 2

\* the paths the agent created or modified relative to the base commit, the
\* harness's own files aside
AgentChanges(c) ==
    {p \in WsPaths \ HarnessFiles : c.ws_run[p] # Absent /\ c.ws_run[p] # BaseTree[p]}

\* the harness's files are gone from the workspace and not in the Solution
HarnessFilesRemoved(c) ==
    /\ c.ws[SdkConfig] = Absent
    /\ c.md_exists => c.ws[AgentFile] = Absent
    /\ \A p \in HarnessFiles : p \notin c.detected /\ c.files[p] = Absent

\* C30 (attempt extraction): a call of generate_solution whose agent run
\* succeeded returns, and the Solution of a call that returns maps exactly the
\* paths the agent created or modified relative to the base commit, files in
\* newly created directories included, to their current content; the
\* harness's own files are removed before the detection and are never in the
\* Solution, whether the call returns or raises.
C30_AttemptExtraction ==
    /\ genCall.pc = "returned" =>
          \A p \in WsPaths :
              genCall.files[p] = IF p \in AgentChanges(genCall)
                                 THEN genCall.ws_run[p] ELSE Absent
    /\ (genCall.pc \in {"returned", "raised"} /\ genCall.outcome = "ok"
            /\ genCall.ws_run["newpkg/mod.py"] # Absent) =>
          /\ genCall.pc = "returned"
          /\ genCall.files["newpkg/mod.py"] = genCall.ws_run["newpkg/mod.py"]
    /\ genCall.pc \in {"returned", "raised"} => HarnessFilesRemoved(genCall)

====
